---- MODULE Spec2Model ----
(***************************************************************************)
(* A model of the OsmGpsMap widget (src/src/osm-gps-map-widget.c): the     *)
(* viewport state, the drag/gesture state machine and the redraw           *)
(* scheduler.                                                              *)
(*                                                                         *)
(* The widget's private structure is the record `priv`; the host main      *)
(* loop's idle queue is `idle_sources`; the widget's allocation is         *)
(* `alloc`.  Every handler of the source is an operator from a state       *)
(* record s = [priv, alloc, idle_sources, em] to the state after it, so    *)
(* that a handler that calls another is the composition of the two.        *)
(* `em` counts what the running handler emitted or invoked.                *)
(*                                                                         *)
(* Geographic coordinates.  converter.c is not part of the sources at      *)
(* hand; the projection is modelled from the specification (section 4.1).  *)
(* A longitude is represented by its horizontal position in the projected  *)
(* world at the finest zoom level GeoZoom, a latitude by its vertical      *)
(* (Mercator) position at that level; lon2pixel/lat2pixel then are the     *)
(* rescaling to the pixel grid of a zoom level (with rounding), and        *)
(* pixel2lon/pixel2lat the exact inverses.  Single-precision rounding of   *)
(* the gfloat fields is not modelled.                                      *)
(***************************************************************************)
EXTENDS Integers, Sequences, FiniteSets, TLC

VARIABLES
    priv,             \* struct _OsmGpsMapPrivate
    alloc,            \* the widget's allocation <<width, height>> (GTK's)
    idle_sources,     \* idle callbacks enqueued on the main loop
    em,               \* signals emitted / redraws made by the last handler
    op,               \* the name of the last handler run
    ret,              \* its return value
    construct_props,  \* the construction properties the host supplied
    burst,            \* consecutive osm_gps_map_map_redraw_idle calls so far
    burst_enq,        \* idle callbacks those calls enqueued
    rejected,         \* a layer consumed a button press and no release followed yet
    images_made,      \* the number of OsmGpsMapImage objects created so far
    surface,          \* what priv->pixmap holds: the viewport it was composed for
    ref_count         \* the GObject reference count of each image, by id

vars == <<priv, alloc, idle_sources, em, op, ret, construct_props, burst, burst_enq,
          rejected, images_made, surface, ref_count>>

(***************************************************************************)
(* Bounds of the model                                                     *)
(***************************************************************************)
MaxSources == 2
MaxRedrawCycle == 1
MaxDragCounter == 2
MaxBurst == 5
MaxLayers == 1
MaxImages == 4
PanRadius == 11

(***************************************************************************)
(* Program constants                                                       *)
(***************************************************************************)
EXTRA_BORDER == 0
TILESIZE == 256
MIN_ZOOM == 0
MAX_ZOOM == 20
OSM_MIN_ZOOM == 1
OSM_MAX_ZOOM == 18
DefaultZoom == 3
DefaultMapX == 890
DefaultMapY == 515
DefaultDragLimit == 10
OSM_GPS_MAP_SCROLL_STEP == 10

\* OsmGpsMapKey_t, in the order on_window_key_press handles the keys
OsmGpsMapKeySeq == <<"FULLSCREEN", "ZOOMIN", "ZOOMOUT", "UP", "DOWN", "LEFT", "RIGHT">>

OsmGpsMapKeys == {OsmGpsMapKeySeq[i] : i \in 1..Len(OsmGpsMapKeySeq)}

GeoZoom == MAX_ZOOM

Pow2(n) == 2 ^ n

Abs(a) == IF a < 0 THEN -a ELSE a

MIN(a, b) == IF a < b THEN a ELSE b

MAX(a, b) == IF a > b THEN a ELSE b

CLAMP(x, low, high) == IF x > high THEN high ELSE IF x < low THEN low ELSE x

\* C integer division (truncation towards zero)
CDiv(a, b) == IF a >= 0 THEN a \div b ELSE -((-a) \div b)

\* rounding to the nearest integer of a / b, b > 0
RoundDiv(a, b) == (a + b \div 2) \div b

(***************************************************************************)
(* Coordinate converter                                                    *)
(***************************************************************************)
WorldSize(zoom) == TILESIZE * Pow2(zoom)

lon2pixel(zoom, rlon) == RoundDiv(rlon, Pow2(GeoZoom - zoom))

lat2pixel(zoom, rlat) ==
    RoundDiv(CLAMP(rlat, 0, WorldSize(GeoZoom)), Pow2(GeoZoom - zoom))

pixel2lon(zoom, pixel_x) == pixel_x * Pow2(GeoZoom - zoom)

pixel2lat(zoom, pixel_y) == pixel_y * Pow2(GeoZoom - zoom)

(***************************************************************************)
(* The main loop's idle queue                                              *)
(***************************************************************************)
SourcesOf(sources, fn) == {src \in sources : src.fn = fn}

RedrawSources == SourcesOf(idle_sources, "osm_gps_map_map_redraw")

ExposeSources == SourcesOf(idle_sources, "osm_gps_map_idle_expose")

NewSourceId(s) ==
    CHOOSE i \in 1..(Cardinality(s.idle_sources) + 1) :
        \A src \in s.idle_sources : src.id # i

g_idle_add(s, fn) == [s EXCEPT !.idle_sources = @ \cup {[id |-> NewSourceId(s), fn |-> fn]}]

g_source_remove(s, id) == [s EXCEPT !.idle_sources = {src \in @ : src.id # id}]

\* ref and unref are the images the handler called g_object_ref and
\* g_object_unref on, one entry per call
\* offered lists the layers whose button_press handler the handler called
NoEmission == [changed |-> 0, notify_zoom |-> 0, redraw |-> 0, recomposed |-> 0,
               ref |-> << >>, unref |-> << >>, offered |-> << >>]

Cur == [priv |-> priv, alloc |-> alloc, idle_sources |-> idle_sources, em |-> NoEmission]

Width(s) == s.alloc[1]

Height(s) == s.alloc[2]

SomeLayerIn(s, set) == \E i \in 1..Len(s.priv.layers) : s.priv.layers[i] \in set

(***************************************************************************)
(* Redraw scheduler and scene composer                                     *)
(***************************************************************************)

\* osm_gps_map_map_redraw; `busy` is the set of layers that report busy now.
\* a redraw that recomposes also while a drag is in progress
map_redraw_while_dragging(s, busy) ==
    LET s1 == [s EXCEPT !.priv.idle_map_redraw = 0, !.em.redraw = @ + 1]
    IN  IF s1.priv.pixmap = "none" THEN s1
        ELSE IF SomeLayerIn(s1, busy) THEN s1
        ELSE [s1 EXCEPT !.priv.drag_mouse_dx = 0,
                        !.priv.drag_mouse_dy = 0,
                        !.priv.redraw_cycle = @ + 1,
                        !.em.recomposed = @ + 1]

\* a redraw that recomposes without undoing the drag offset
map_redraw_keeps_offset(s, busy) ==
    LET s1 == [s EXCEPT !.priv.idle_map_redraw = 0, !.em.redraw = @ + 1]
    IN  IF s1.priv.pixmap = "none" THEN s1
        ELSE IF SomeLayerIn(s1, busy) THEN s1
        ELSE IF s1.priv.is_dragging THEN s1
        ELSE [s1 EXCEPT !.priv.redraw_cycle = @ + 1,
                        !.em.recomposed = @ + 1]

osm_gps_map_map_redraw(s, busy) ==
    LET s1 == [s EXCEPT !.priv.idle_map_redraw = 0, !.em.redraw = @ + 1]
    IN  IF s1.priv.pixmap = "none" THEN s1
        ELSE IF SomeLayerIn(s1, busy) THEN s1
        ELSE IF s1.priv.is_dragging THEN s1
        ELSE [s1 EXCEPT !.priv.drag_mouse_dx = 0,
                        !.priv.drag_mouse_dy = 0,
                        !.priv.redraw_cycle = @ + 1,
                        !.em.recomposed = @ + 1]

\* a scheduler that does not coalesce: it enqueues a callback at every call
map_redraw_idle_uncoalesced(s) ==
    [g_idle_add(s, "osm_gps_map_map_redraw") EXCEPT !.priv.idle_map_redraw = NewSourceId(s)]

osm_gps_map_map_redraw_idle(s) ==
    IF s.priv.idle_map_redraw = 0
    THEN [g_idle_add(s, "osm_gps_map_map_redraw")
            EXCEPT !.priv.idle_map_redraw = NewSourceId(s)]
    ELSE s

\* an update that takes the top-left corner for the center
center_coord_update_at_origin(s) ==
    [s EXCEPT !.priv.center_rlon = pixel2lon(s.priv.map_zoom, s.priv.map_x),
              !.priv.center_rlat = pixel2lat(s.priv.map_zoom, s.priv.map_y),
              !.em.changed = @ + 1]

\* an update that does not emit "changed"
center_coord_update_silent(s) ==
    LET pixel_x == s.priv.map_x + CDiv(Width(s), 2)
        pixel_y == s.priv.map_y + CDiv(Height(s), 2)
    IN  [s EXCEPT !.priv.center_rlon = pixel2lon(s.priv.map_zoom, pixel_x),
                  !.priv.center_rlat = pixel2lat(s.priv.map_zoom, pixel_y)]

center_coord_update(s) ==
    LET pixel_x == s.priv.map_x + CDiv(Width(s), 2)
        pixel_y == s.priv.map_y + CDiv(Height(s), 2)
    IN  [s EXCEPT !.priv.center_rlon = pixel2lon(s.priv.map_zoom, pixel_x),
                  !.priv.center_rlat = pixel2lat(s.priv.map_zoom, pixel_y),
                  !.em.changed = @ + 1]

\* the test of one axis: pos is the fix's screen coordinate, size the
\* viewport's extent along the axis
OutsideBand(pos, size) ==
    \/ pos < CDiv(size, 2) - CDiv(size, 8)
    \/ pos > CDiv(size, 2) + CDiv(size, 8)

\* a policy that does not look at the auto-center flag
maybe_autocenter_map_always(s) ==
    LET pixel_x == lon2pixel(s.priv.map_zoom, s.priv.gps.rlon)
        pixel_y == lat2pixel(s.priv.map_zoom, s.priv.gps.rlat)
        x == pixel_x - s.priv.map_x
        y == pixel_y - s.priv.map_y
    IN  IF OutsideBand(x, Width(s)) \/ OutsideBand(y, Height(s))
        THEN center_coord_update(
                 [s EXCEPT !.priv.map_x = pixel_x - CDiv(Width(s), 2),
                           !.priv.map_y = pixel_y - CDiv(Height(s), 2)])
        ELSE s

\* a policy that looks at the horizontal axis only
maybe_autocenter_map_horizontal(s) ==
    IF s.priv.map_auto_center_enabled
    THEN LET pixel_x == lon2pixel(s.priv.map_zoom, s.priv.gps.rlon)
             pixel_y == lat2pixel(s.priv.map_zoom, s.priv.gps.rlat)
             x == pixel_x - s.priv.map_x
         IN  IF OutsideBand(x, Width(s))
             THEN center_coord_update(
                      [s EXCEPT !.priv.map_x = pixel_x - CDiv(Width(s), 2),
                                !.priv.map_y = pixel_y - CDiv(Height(s), 2)])
             ELSE s
    ELSE s

maybe_autocenter_map(s) ==
    IF s.priv.map_auto_center_enabled
    THEN LET pixel_x == lon2pixel(s.priv.map_zoom, s.priv.gps.rlon)
             pixel_y == lat2pixel(s.priv.map_zoom, s.priv.gps.rlat)
             x == pixel_x - s.priv.map_x
             y == pixel_y - s.priv.map_y
         IN  IF OutsideBand(x, Width(s)) \/ OutsideBand(y, Height(s))
             THEN center_coord_update(
                      [s EXCEPT !.priv.map_x = pixel_x - CDiv(Width(s), 2),
                                !.priv.map_y = pixel_y - CDiv(Height(s), 2)])
             ELSE s
    ELSE s

(***************************************************************************)
(* Properties                                                              *)
(***************************************************************************)
osm_gps_map_set_property(s, prop_id, value) ==
    CASE prop_id = "auto-center" -> [s EXCEPT !.priv.map_auto_center_enabled = value]
      [] prop_id = "zoom"        -> [s EXCEPT !.priv.map_zoom = value]
      [] prop_id = "max-zoom"    -> [s EXCEPT !.priv.max_zoom = value]
      [] prop_id = "min-zoom"    -> [s EXCEPT !.priv.min_zoom = value]
      [] prop_id = "map-x"       -> center_coord_update([s EXCEPT !.priv.map_x = value])
      [] prop_id = "map-y"       -> center_coord_update([s EXCEPT !.priv.map_y = value])
      [] prop_id = "drag-limit"  -> [s EXCEPT !.priv.drag_limit = value]
      [] prop_id = "record-trip-history"
                                 -> [s EXCEPT !.priv.trip_history_record_enabled = value]
      [] OTHER -> s

(***************************************************************************)
(* Viewport mutators                                                       *)
(***************************************************************************)
\* a set_center that leaves the auto-center property as it is
set_center_keeps_auto_center(s, latitude, longitude) ==
    LET s2 == [s EXCEPT !.priv.center_rlat = latitude,
                        !.priv.center_rlon = longitude]
        pixel_x == lon2pixel(s2.priv.map_zoom, s2.priv.center_rlon)
        pixel_y == lat2pixel(s2.priv.map_zoom, s2.priv.center_rlat)
        s3 == [s2 EXCEPT !.priv.map_x = pixel_x - CDiv(Width(s), 2),
                         !.priv.map_y = pixel_y - CDiv(Height(s), 2)]
        s4 == osm_gps_map_map_redraw_idle(s3)
    IN  [s4 EXCEPT !.em.changed = @ + 1]

osm_gps_map_set_center(s, latitude, longitude) ==
    LET s1 == osm_gps_map_set_property(s, "auto-center", FALSE)
        s2 == [s1 EXCEPT !.priv.center_rlat = latitude,
                         !.priv.center_rlon = longitude]
        pixel_x == lon2pixel(s2.priv.map_zoom, s2.priv.center_rlon)
        pixel_y == lat2pixel(s2.priv.map_zoom, s2.priv.center_rlat)
        s3 == [s2 EXCEPT !.priv.map_x = pixel_x - CDiv(Width(s), 2),
                         !.priv.map_y = pixel_y - CDiv(Height(s), 2)]
        s4 == osm_gps_map_map_redraw_idle(s3)
    IN  [s4 EXCEPT !.em.changed = @ + 1]

\* the heading is stored for the drawing of the GPS point only
osm_gps_map_gps_add(s, latitude, longitude) ==
    maybe_autocenter_map(osm_gps_map_map_redraw_idle(
        [s EXCEPT !.priv.gps = [rlat |-> latitude, rlon |-> longitude]]))

set_zoom_unguarded(s, zoom) ==
    LET z  == CLAMP(zoom, s.priv.min_zoom, s.priv.max_zoom)
        s1 == [s EXCEPT !.priv.map_zoom = z,
                        !.priv.map_x = lon2pixel(z, s.priv.center_rlon) - CDiv(Width(s), 2),
                        !.priv.map_y = lat2pixel(z, s.priv.center_rlat) - CDiv(Height(s), 2)]
        s2 == osm_gps_map_map_redraw_idle(s1)
    IN  [s2 EXCEPT !.em.changed = @ + 1, !.em.notify_zoom = @ + 1]

\* a set_zoom that rescales the pixel position of the center instead of
\* projecting the center again
set_zoom_rescaling_pixels(s, zoom) ==
    IF zoom # s.priv.map_zoom
    THEN LET z  == CLAMP(zoom, s.priv.min_zoom, s.priv.max_zoom)
             old == s.priv.map_zoom
             Rescale(p) == IF z >= old THEN p * Pow2(z - old) ELSE p \div Pow2(old - z)
             s1 == [s EXCEPT !.priv.map_zoom = z,
                             !.priv.map_x = Rescale(lon2pixel(old, s.priv.center_rlon))
                                            - CDiv(Width(s), 2),
                             !.priv.map_y = Rescale(lat2pixel(old, s.priv.center_rlat))
                                            - CDiv(Height(s), 2)]
             s2 == osm_gps_map_map_redraw_idle(s1)
         IN  [s2 EXCEPT !.em.changed = @ + 1, !.em.notify_zoom = @ + 1]
    ELSE s

\* the state after osm_gps_map_set_zoom; its return value is priv.map_zoom
osm_gps_map_set_zoom(s, zoom) ==
    IF zoom # s.priv.map_zoom
    THEN LET width_center  == CDiv(Width(s), 2)
             height_center == CDiv(Height(s), 2)
             z  == CLAMP(zoom, s.priv.min_zoom, s.priv.max_zoom)
             s1 == [s EXCEPT !.priv.map_zoom = z,
                             !.priv.map_x = lon2pixel(z, s.priv.center_rlon) - width_center,
                             !.priv.map_y = lat2pixel(z, s.priv.center_rlat) - height_center]
             s2 == osm_gps_map_map_redraw_idle(s1)
         IN  [s2 EXCEPT !.em.changed = @ + 1, !.em.notify_zoom = @ + 1]
    ELSE s

osm_gps_map_zoom_in(s) == osm_gps_map_set_zoom(s, s.priv.map_zoom + 1)

osm_gps_map_zoom_out(s) == osm_gps_map_set_zoom(s, s.priv.map_zoom - 1)

osm_gps_map_set_center_and_zoom(s, latitude, longitude, zoom) ==
    osm_gps_map_set_zoom(osm_gps_map_set_center(s, latitude, longitude), zoom)

\* a scroll that moves the origin and leaves the cached center behind
scroll_without_center(s, dx, dy) ==
    osm_gps_map_map_redraw_idle([s EXCEPT !.priv.map_x = @ + dx, !.priv.map_y = @ + dy])

osm_gps_map_scroll(s, dx, dy) ==
    osm_gps_map_map_redraw_idle(
        center_coord_update([s EXCEPT !.priv.map_x = @ + dx, !.priv.map_y = @ + dy]))

\* the screen position of the point (rlat, rlon), as <<pixel_x, pixel_y>>
osm_gps_map_convert_geographic_to_screen(s, rlat, rlon) ==
    LET map_x0 == s.priv.map_x - EXTRA_BORDER
        map_y0 == s.priv.map_y - EXTRA_BORDER
    IN  <<lon2pixel(s.priv.map_zoom, rlon) - map_x0 + s.priv.drag_mouse_dx,
          lat2pixel(s.priv.map_zoom, rlat) - map_y0 + s.priv.drag_mouse_dy>>

\* the point shown at screen position (pixel_x, pixel_y), as <<rlat, rlon>>
osm_gps_map_convert_screen_to_geographic(s, pixel_x, pixel_y) ==
    LET map_x0 == s.priv.map_x - EXTRA_BORDER
        map_y0 == s.priv.map_y - EXTRA_BORDER
    IN  <<pixel2lat(s.priv.map_zoom, map_y0 + pixel_y),
          pixel2lon(s.priv.map_zoom, map_x0 + pixel_x)>>

\* the greatest zoom level at which the bounding box fits into the viewport
latlon2zoom(pix_height, pix_width, lat1, lat2, lon1, lon2) ==
    LET Fits(z) == /\ Abs(lon2pixel(z, lon2) - lon2pixel(z, lon1)) <= pix_width
                   /\ Abs(lat2pixel(z, lat2) - lat2pixel(z, lat1)) <= pix_height
        fitting == {z \in MIN_ZOOM..MAX_ZOOM : Fits(z)}
    IN  IF fitting = {} THEN MIN_ZOOM
        ELSE CHOOSE z \in fitting : \A y \in fitting : y <= z

osm_gps_map_zoom_fit_bbox(s, latitude1, latitude2, longitude1, longitude2) ==
    LET zoom == latlon2zoom(Height(s), Width(s), latitude1, latitude2, longitude1, longitude2)
        s1   == osm_gps_map_set_center(s, CDiv(latitude1 + latitude2, 2),
                                          CDiv(longitude1 + longitude2, 2))
    IN  osm_gps_map_set_zoom(s1, zoom)

\* event = [direction, x, y].  The new center is interpolated in projected
\* coordinates.
osm_gps_map_scroll_event(s, event) ==
    LET pt    == osm_gps_map_convert_screen_to_geographic(s, event.x, event.y)
        c_lat == s.priv.center_rlat
        c_lon == s.priv.center_rlon
    IN  IF event.direction = "GDK_SCROLL_UP" /\ s.priv.map_zoom < s.priv.max_zoom
        THEN osm_gps_map_set_center_and_zoom(s, c_lat + CDiv(pt[1] - c_lat, 2),
                                                c_lon + CDiv(pt[2] - c_lon, 2),
                                                s.priv.map_zoom + 1)
        ELSE IF event.direction = "GDK_SCROLL_DOWN" /\ s.priv.map_zoom > s.priv.min_zoom
        THEN osm_gps_map_set_center_and_zoom(s, c_lat + (c_lat - pt[1]),
                                                c_lon + (c_lon - pt[2]),
                                                s.priv.map_zoom - 1)
        ELSE s

(***************************************************************************)
(* Keyboard                                                                *)
(***************************************************************************)
osm_gps_map_set_keyboard_shortcut(s, key, keyval) ==
    [s EXCEPT !.priv.keybindings[key] = keyval, !.priv.keybindings_enabled = TRUE]

\* the body of the loop of on_window_key_press for binding number i
KeyAction(s, key) ==
    LET step == CDiv(Width(s), OSM_GPS_MAP_SCROLL_STEP)
        Pan(dx, dy) == osm_gps_map_map_redraw_idle(center_coord_update(
                          [s EXCEPT !.priv.map_x = @ + dx, !.priv.map_y = @ + dy]))
    IN  CASE key = "FULLSCREEN" -> [s EXCEPT !.priv.is_fullscreen = ~@]
          [] key = "ZOOMIN"     -> osm_gps_map_zoom_in(s)
          [] key = "ZOOMOUT"    -> osm_gps_map_zoom_out(s)
          [] key = "UP"         -> Pan(0, -step)
          [] key = "DOWN"       -> Pan(0, step)
          [] key = "LEFT"       -> Pan(-step, 0)
          [] key = "RIGHT"      -> Pan(step, 0)

RECURSIVE KeyLoop(_, _, _)
KeyLoop(s, keyval, i) ==
    IF i > Len(OsmGpsMapKeySeq) THEN s
    ELSE IF s.priv.keybindings[OsmGpsMapKeySeq[i]] # keyval THEN KeyLoop(s, keyval, i + 1)
    ELSE KeyLoop(KeyAction(s, OsmGpsMapKeySeq[i]), keyval, i + 1)

\* the state after on_window_key_press
on_window_key_press(s, keyval) ==
    IF ~s.priv.keybindings_enabled THEN s ELSE KeyLoop(s, keyval, 1)

\* its return value
on_window_key_press_handled(s, keyval) ==
    /\ s.priv.keybindings_enabled
    /\ \E key \in OsmGpsMapKeys : s.priv.keybindings[key] = keyval

(***************************************************************************)
(* Construction                                                            *)
(***************************************************************************)
osm_gps_map_init ==
    [priv |-> [map_zoom |-> 0, max_zoom |-> 0, min_zoom |-> 0,
               map_x |-> 0, map_y |-> 0,
               center_rlat |-> 0, center_rlon |-> 0,
               gps |-> [rlat |-> 0, rlon |-> 0],
               trip_history |-> << >>, trip_history_record_enabled |-> FALSE,
               redraw_cycle |-> 0, idle_map_redraw |-> 0,
               pixmap |-> "none", layers |-> << >>, images |-> << >>,
               drag_counter |-> 0, drag_mouse_dx |-> 0, drag_mouse_dy |-> 0,
               drag_start_mouse_x |-> 0, drag_start_mouse_y |-> 0,
               drag_start_map_x |-> 0, drag_start_map_y |-> 0,
               drag_limit |-> 0, drag_expose_source |-> 0,
               map_auto_center_enabled |-> FALSE,
               is_disposed |-> FALSE, is_constructed |-> FALSE,
               is_dragging |-> FALSE, is_button_down |-> FALSE,
               is_dragging_point |-> FALSE, is_fullscreen |-> FALSE,
               keybindings |-> [key \in OsmGpsMapKeys |-> 0],
               keybindings_enabled |-> FALSE],
     alloc |-> <<1, 1>>,
     idle_sources |-> {},
     em |-> NoEmission]

osm_gps_map_setup(s) ==
    LET s1 == [s EXCEPT !.priv.max_zoom = 18, !.priv.min_zoom = 1]
    IN  IF s1.priv.is_constructed
        THEN LET s2 == IF s1.priv.map_zoom > s1.priv.max_zoom
                       THEN osm_gps_map_set_zoom(s1, s1.priv.max_zoom) ELSE s1
                 s3 == IF s2.priv.map_zoom < s2.priv.min_zoom
                       THEN osm_gps_map_set_zoom(s2, s2.priv.min_zoom) ELSE s2
             IN  osm_gps_map_map_redraw_idle(s3)
        ELSE s1

\* g_object_new: the construct properties are set in the order in which
\* osm_gps_map_class_init installs them, then the constructor runs setup.
\* record-trip-history, which no host of the model supplies, takes its
\* default.
osm_gps_map_constructor(props) ==
    LET s0 == osm_gps_map_set_property(osm_gps_map_init, "record-trip-history", TRUE)
        s1 == osm_gps_map_set_property(s0, "auto-center", props.auto_center)
        s2 == osm_gps_map_set_property(s1, "zoom", props.zoom)
        s3 == osm_gps_map_set_property(s2, "max-zoom", props.max_zoom)
        s4 == osm_gps_map_set_property(s3, "min-zoom", props.min_zoom)
        s5 == osm_gps_map_set_property(s4, "map-x", props.map_x)
        s6 == osm_gps_map_set_property(s5, "map-y", props.map_y)
        s7 == osm_gps_map_set_property(s6, "drag-limit", props.drag_limit)
        s8 == osm_gps_map_setup(s7)
    IN  [s8 EXCEPT !.priv.is_constructed = TRUE, !.em = NoEmission]

DefaultProps ==
    [auto_center |-> TRUE, zoom |-> DefaultZoom,
     max_zoom |-> OSM_MAX_ZOOM, min_zoom |-> OSM_MIN_ZOOM,
     map_x |-> DefaultMapX, map_y |-> DefaultMapY,
     drag_limit |-> DefaultDragLimit]

(***************************************************************************)
(* Pointer events.  An event is a record [x, y, button1]: the position the *)
(* handler uses (the event's, or the device position it re-queries for a   *)
(* hint) and whether GDK_BUTTON1_MASK is set in the modifier state.        *)
(***************************************************************************)

\* a press that is offered to every layer, also after one consumed it
button_press_offers_all(s, event, consuming) ==
    IF SomeLayerIn(s, consuming)
    THEN [s EXCEPT !.em.offered = s.priv.layers]
    ELSE [s EXCEPT !.em.offered = s.priv.layers,
                   !.priv.is_button_down = TRUE,
                   !.priv.drag_counter = 0,
                   !.priv.drag_start_mouse_x = event.x,
                   !.priv.drag_start_mouse_y = event.y,
                   !.priv.drag_start_map_x = s.priv.map_x,
                   !.priv.drag_start_map_y = s.priv.map_y]

\* `consuming` is the set of layers whose button_press handler consumes the
\* event; the loop walks priv->layers from its head and returns at the first
\* layer whose handler returns TRUE
osm_gps_map_button_press(s, event, consuming) ==
    IF SomeLayerIn(s, consuming)
    THEN LET list == CHOOSE i \in 1..Len(s.priv.layers) :
                         /\ s.priv.layers[i] \in consuming
                         /\ \A j \in 1..(i - 1) : s.priv.layers[j] \notin consuming
         IN  [s EXCEPT !.em.offered = SubSeq(s.priv.layers, 1, list)]
    ELSE [s EXCEPT !.em.offered = s.priv.layers,
                   !.priv.is_button_down = TRUE,
                   !.priv.drag_counter = 0,
                   !.priv.drag_start_mouse_x = event.x,
                   !.priv.drag_start_mouse_y = event.y,
                   !.priv.drag_start_map_x = s.priv.map_x,
                   !.priv.drag_start_map_y = s.priv.map_y]

\* a release that commits the pointer displacement whether or not a drag began
button_release_always_commits(s, event) ==
    IF ~s.priv.is_button_down
    THEN s
    ELSE LET s1 == osm_gps_map_map_redraw_idle(center_coord_update(
                          [s EXCEPT !.priv.is_dragging = FALSE,
                                    !.priv.map_x = s.priv.drag_start_map_x
                                                   + (s.priv.drag_start_mouse_x - event.x),
                                    !.priv.map_y = s.priv.drag_start_map_y
                                                   + (s.priv.drag_start_mouse_y - event.y)]))
         IN  [s1 EXCEPT !.priv.drag_counter = -1, !.priv.is_button_down = FALSE]

osm_gps_map_button_release(s, event) ==
    IF ~s.priv.is_button_down
    THEN s
    ELSE LET s1 == IF s.priv.is_dragging
                   THEN osm_gps_map_map_redraw_idle(center_coord_update(
                          [s EXCEPT !.priv.is_dragging = FALSE,
                                    !.priv.map_x = s.priv.drag_start_map_x
                                                   + (s.priv.drag_start_mouse_x - event.x),
                                    !.priv.map_y = s.priv.drag_start_map_y
                                                   + (s.priv.drag_start_mouse_y - event.y)]))
                   ELSE s
         IN  [s1 EXCEPT !.priv.drag_counter = -1, !.priv.is_button_down = FALSE]

osm_gps_map_idle_expose(s) == [s EXCEPT !.priv.drag_expose_source = 0]

\* the threshold test with <= for < (a motion at exactly drag_limit does not start a drag)
NotYetDraggedFarEnough_inclusive(s, x, y) ==
    /\ s.priv.drag_counter = 0
    /\ (x - s.priv.drag_start_mouse_x) * (x - s.priv.drag_start_mouse_x)
       + (y - s.priv.drag_start_mouse_y) * (y - s.priv.drag_start_mouse_y)
         <= s.priv.drag_limit * s.priv.drag_limit

\* the threshold test without the drag_counter test (applied to every motion event)
NotYetDraggedFarEnough_always(s, x, y) ==
    (x - s.priv.drag_start_mouse_x) * (x - s.priv.drag_start_mouse_x)
    + (y - s.priv.drag_start_mouse_y) * (y - s.priv.drag_start_mouse_y)
      < s.priv.drag_limit * s.priv.drag_limit

NotYetDraggedFarEnough(s, x, y) ==
    /\ s.priv.drag_counter = 0
    /\ (x - s.priv.drag_start_mouse_x) * (x - s.priv.drag_start_mouse_x)
       + (y - s.priv.drag_start_mouse_y) * (y - s.priv.drag_start_mouse_y)
         < s.priv.drag_limit * s.priv.drag_limit

\* a handler that enqueues a repaint callback at every dragging motion
motion_notify_uncoalesced(s, event) ==
    IF ~s.priv.is_button_down THEN s
    ELSE IF s.priv.is_dragging_point THEN osm_gps_map_map_redraw_idle(s)
    ELSE IF ~event.button1 THEN s
    ELSE IF s.priv.drag_counter < 0 THEN s
    ELSE IF NotYetDraggedFarEnough(s, event.x, event.y) THEN s
    ELSE LET s1 == [s EXCEPT !.priv.drag_counter = @ + 1,
                             !.priv.is_dragging = TRUE]
             s2 == IF s1.priv.map_auto_center_enabled
                   THEN osm_gps_map_set_property(s1, "auto-center", FALSE)
                   ELSE s1
             s3 == [s2 EXCEPT !.priv.drag_mouse_dx = event.x - s.priv.drag_start_mouse_x,
                              !.priv.drag_mouse_dy = event.y - s.priv.drag_start_mouse_y]
         IN  [g_idle_add(s3, "osm_gps_map_idle_expose")
                EXCEPT !.priv.drag_expose_source = NewSourceId(s3)]

\* a handler that moves the origin with the pointer while the drag goes on
motion_notify_moving_origin(s, event) ==
    IF ~s.priv.is_button_down THEN s
    ELSE IF s.priv.is_dragging_point THEN osm_gps_map_map_redraw_idle(s)
    ELSE IF ~event.button1 THEN s
    ELSE IF s.priv.drag_counter < 0 THEN s
    ELSE IF NotYetDraggedFarEnough(s, event.x, event.y) THEN s
    ELSE LET s1 == [s EXCEPT !.priv.drag_counter = @ + 1,
                             !.priv.is_dragging = TRUE]
             s2 == IF s1.priv.map_auto_center_enabled
                   THEN osm_gps_map_set_property(s1, "auto-center", FALSE)
                   ELSE s1
             s3 == [s2 EXCEPT !.priv.drag_mouse_dx = event.x - s.priv.drag_start_mouse_x,
                              !.priv.drag_mouse_dy = event.y - s.priv.drag_start_mouse_y,
                              !.priv.map_x = s.priv.drag_start_map_x
                                             - (event.x - s.priv.drag_start_mouse_x),
                              !.priv.map_y = s.priv.drag_start_map_y
                                             - (event.y - s.priv.drag_start_mouse_y)]
         IN  IF s3.priv.drag_expose_source = 0
             THEN [g_idle_add(s3, "osm_gps_map_idle_expose")
                     EXCEPT !.priv.drag_expose_source = NewSourceId(s3)]
             ELSE s3

osm_gps_map_motion_notify(s, event) ==
    IF ~s.priv.is_button_down THEN s
    ELSE IF s.priv.is_dragging_point THEN osm_gps_map_map_redraw_idle(s)
    ELSE IF ~event.button1 THEN s
    ELSE IF s.priv.drag_counter < 0 THEN s
    ELSE IF NotYetDraggedFarEnough(s, event.x, event.y) THEN s
    ELSE LET s1 == [s EXCEPT !.priv.drag_counter = @ + 1,
                             !.priv.is_dragging = TRUE]
             s2 == IF s1.priv.map_auto_center_enabled
                   THEN osm_gps_map_set_property(s1, "auto-center", FALSE)
                   ELSE s1
             s3 == [s2 EXCEPT !.priv.drag_mouse_dx = event.x - s.priv.drag_start_mouse_x,
                              !.priv.drag_mouse_dy = event.y - s.priv.drag_start_mouse_y]
         IN  IF s3.priv.drag_expose_source = 0
             THEN [g_idle_add(s3, "osm_gps_map_idle_expose")
                     EXCEPT !.priv.drag_expose_source = NewSourceId(s3)]
             ELSE s3

\* the configure event of a resize to `size` = <<w, h>>
osm_gps_map_configure(s, size, busy) ==
    LET w  == size[1]
        h  == size[2]
        s1 == [s EXCEPT !.alloc = size, !.priv.pixmap = "live"]
        pixel_x == lon2pixel(s1.priv.map_zoom, s1.priv.center_rlon)
        pixel_y == lat2pixel(s1.priv.map_zoom, s1.priv.center_rlat)
        s2 == [s1 EXCEPT !.priv.map_x = pixel_x - CDiv(w, 2),
                         !.priv.map_y = pixel_y - CDiv(h, 2)]
        s3 == osm_gps_map_map_redraw(s2, busy)
    IN  [s3 EXCEPT !.em.changed = @ + 1]

osm_gps_map_layer_add(s, layer) == [s EXCEPT !.priv.layers = Append(@, layer)]

(***************************************************************************)
(* The marker store and the layer store.  An OsmGpsMapImage is a record    *)
(* [id, zorder]; id is the object's identity, the number of images created *)
(* before it plus one.  A layer is its identity.                           *)
(***************************************************************************)
\* g_slist_find: the index of the first link holding gobj, or 0
g_slist_find(list, gobj) ==
    IF \E i \in 1..Len(list) : list[i] = gobj
    THEN CHOOSE i \in 1..Len(list) : list[i] = gobj /\ \A j \in 1..(i - 1) : list[j] # gobj
    ELSE 0

g_slist_delete_link(list, i) == [j \in 1..(Len(list) - 1) |-> IF j < i THEN list[j] ELSE list[j + 1]]

\* a removal that unlinks the head of the list when gobj is not in it
gslist_remove_one_gobject_or_head(list, gobj) ==
    LET data == g_slist_find(list, gobj)
    IN  IF data # 0
        THEN [list |-> g_slist_delete_link(list, data), data |-> TRUE, unref |-> <<gobj>>]
        ELSE IF list # << >>
             THEN [list |-> Tail(list), data |-> TRUE, unref |-> <<Head(list)>>]
        ELSE [list |-> list, data |-> FALSE, unref |-> << >>]

\* a removal that releases a reference whether or not the object is found
gslist_remove_one_gobject_unref_always(list, gobj) ==
    LET data == g_slist_find(list, gobj)
    IN  IF data # 0
        THEN [list |-> g_slist_delete_link(list, data), data |-> TRUE, unref |-> <<gobj>>]
        ELSE [list |-> list, data |-> FALSE, unref |-> <<gobj>>]

\* [list, data, unref]: the list after the call, whether a link was found,
\* and the objects g_object_unref was called on
gslist_remove_one_gobject(list, gobj) ==
    LET data == g_slist_find(list, gobj)
    IN  IF data # 0
        THEN [list |-> g_slist_delete_link(list, data), data |-> TRUE, unref |-> <<gobj>>]
        ELSE [list |-> list, data |-> FALSE, unref |-> << >>]

\* the comparison without the + 1 (a tie compares as "not greater")
image_z_compare_plain(item1, item2) == item1.zorder - item2.zorder

osm_gps_map_image_z_compare(item1, item2) == item1.zorder - item2.zorder + 1

\* g_slist_insert_sorted with osm_gps_map_image_z_compare: the new link goes
\* before the first element the data does not compare greater than
g_slist_insert_sorted(list, data) ==
    LET after == {i \in 1..Len(list) : osm_gps_map_image_z_compare(data, list[i]) <= 0}
        at    == IF after = {} THEN Len(list) + 1
                 ELSE CHOOSE i \in after : \A j \in after : i <= j
    IN  [j \in 1..(Len(list) + 1) |->
           IF j < at THEN list[j] ELSE IF j = at THEN data ELSE list[j - 1]]

\* im is the object g_object_new returns
osm_gps_map_image_add_with_alignment_z(s, im) ==
    LET s1 == osm_gps_map_map_redraw_idle(
                  [s EXCEPT !.priv.images = g_slist_insert_sorted(@, im)])
    IN  [s1 EXCEPT !.em.ref = Append(@, im)]

\* the state after osm_gps_map_image_remove
osm_gps_map_image_remove(s, image) ==
    osm_gps_map_map_redraw_idle(
        [s EXCEPT !.priv.images = gslist_remove_one_gobject(@, image).list,
                  !.em.unref = @ \o gslist_remove_one_gobject(s.priv.images, image).unref])

\* its return value
osm_gps_map_image_remove_found(s, image) ==
    gslist_remove_one_gobject(s.priv.images, image).data

\* gslist_of_gobjects_free calls g_object_unref on every element
osm_gps_map_image_remove_all(s) ==
    osm_gps_map_map_redraw_idle(
        [s EXCEPT !.priv.images = << >>, !.em.unref = @ \o s.priv.images])

\* a handler that ignores the notification
on_image_changed_ignored(s) == s

\* the "notify" handler connected to every image the map creates
on_image_changed(s) == osm_gps_map_map_redraw_idle(s)

\* where osm_gps_map_print_images puts the point (rlat, rlon) on the pixmap,
\* as <<x, y>>, for the viewport `view` it composes
print_images_loc(view, rlat, rlon) ==
    LET map_x0 == view.map_x - EXTRA_BORDER
        map_y0 == view.map_y - EXTRA_BORDER
    IN  <<lon2pixel(view.map_zoom, rlon) - map_x0, lat2pixel(view.map_zoom, rlat) - map_y0>>

\* where osm_gps_map_draw puts the pixmap on the screen, as <<x, y>>
osm_gps_map_draw(s) ==
    IF s.priv.drag_mouse_dx = 0 /\ s.priv.drag_mouse_dy = 0
    THEN <<0, 0>>
    ELSE <<s.priv.drag_mouse_dx - EXTRA_BORDER, s.priv.drag_mouse_dy - EXTRA_BORDER>>

\* the order in which osm_gps_map_print_images draws the images
osm_gps_map_print_images(s) == [i \in 1..Len(s.priv.images) |-> s.priv.images[i].id]

osm_gps_map_layer_remove(s, layer) ==
    osm_gps_map_map_redraw_idle(
        [s EXCEPT !.priv.layers = gslist_remove_one_gobject(@, layer).list])

osm_gps_map_layer_remove_found(s, layer) ==
    gslist_remove_one_gobject(s.priv.layers, layer).data

osm_gps_map_layer_remove_all(s) ==
    osm_gps_map_map_redraw_idle([s EXCEPT !.priv.layers = << >>])

osm_gps_map_dispose(s) ==
    IF s.priv.is_disposed
    THEN s
    ELSE LET s1 == [s EXCEPT !.priv.is_disposed = TRUE,
                             !.priv.layers = << >>,
                             !.priv.images = << >>,
                             !.em.unref = @ \o s.priv.images,
                             !.priv.pixmap = IF @ = "none" THEN "none" ELSE "freed"]
             s2 == IF s1.priv.idle_map_redraw # 0
                   THEN g_source_remove(s1, s1.priv.idle_map_redraw) ELSE s1
         IN  IF s2.priv.drag_expose_source # 0
             THEN g_source_remove(s2, s2.priv.drag_expose_source) ELSE s2

(***************************************************************************)
(* Inputs                                                                  *)
(***************************************************************************)
HomeLon == pixel2lon(construct_props.zoom, construct_props.map_x)

HomeLat == pixel2lat(construct_props.zoom, construct_props.map_y)

\* the (latitude, longitude) arguments of set_center
CenterPoints ==
    {<<pixel2lat(DefaultZoom, DefaultMapY), pixel2lon(DefaultZoom, DefaultMapX + 11)>>}

\* the arguments of set_zoom: every level of the property range, and one
\* beyond each end
ZoomRequests == (MIN_ZOOM - 1)..(MAX_ZOOM + 1)

\* (min-zoom, max-zoom) construction properties: the defaults and a narrower
\* range
ZoomBoundsProps == {<<OSM_MIN_ZOOM, OSM_MAX_ZOOM>>, <<5, 10>>}

\* the zoom argument of set_center_and_zoom
CenterZoomRequests == {MIN_ZOOM, DefaultZoom + 1, MAX_ZOOM}

\* bounding boxes <<latitude1, latitude2, longitude1, longitude2>> around a
\* point: the point itself, and a box 2^16 wide
BboxesAround(lat, lon) ==
    {<<lat, lat, lon, lon>>, <<lat, lat, lon - Pow2(15), lon + Pow2(15)>>}

\* GDK_KEY_plus and GDK_KEY_minus
KeyBindingRequests == {<<"ZOOMIN", 43>>, <<"ZOOMOUT", 45>>}

KeyVals == {kb[2] : kb \in KeyBindingRequests}

ScrollDirections == {"GDK_SCROLL_UP", "GDK_SCROLL_DOWN"}

ScrollSteps == {<<11, 0>>, <<-11, 0>>}

Sizes == {<<80, 60>>}

PressPositions == {<<0, 0>>}

MotionPositions == {<<9, 0>>, <<6, 8>>, <<11, 0>>}

ReleasePositions == {<<0, 0>>, <<11, 0>>}

LayerIds == 1..MaxLayers

LayersOf(s) == {s.priv.layers[i] : i \in 1..Len(s.priv.layers)}

ViewCenterLon(s) == pixel2lon(s.priv.map_zoom, s.priv.map_x + CDiv(Width(s), 2))

ViewCenterLat(s) == pixel2lat(s.priv.map_zoom, s.priv.map_y + CDiv(Height(s), 2))

\* the part of the world the model explores: PanRadius pixels (at the
\* default zoom) around the initial center or around the GPS point
InPanWindow(s) ==
    \/ /\ Abs(ViewCenterLon(s) - HomeLon) <= PanRadius * Pow2(GeoZoom - DefaultZoom)
       /\ Abs(ViewCenterLat(s) - HomeLat) <= PanRadius * Pow2(GeoZoom - DefaultZoom)
    \/ /\ Abs(ViewCenterLon(s) - s.priv.gps.rlon) <= PanRadius * Pow2(GeoZoom - DefaultZoom)
       /\ Abs(ViewCenterLat(s) - s.priv.gps.rlat) <= PanRadius * Pow2(GeoZoom - DefaultZoom)

WithinBounds(s) ==
    /\ s.priv.redraw_cycle <= MaxRedrawCycle
    /\ s.priv.drag_counter <= MaxDragCounter
    /\ Cardinality(s.idle_sources) <= MaxSources
    /\ InPanWindow(s)

\* a pixmap that osm_gps_map_configure has just created, or none: nothing is
\* painted on it
NoSurface == [composed |-> FALSE, map_x |-> 0, map_y |-> 0, map_zoom |-> 0]

\* the pixmap after osm_gps_map_map_redraw has painted it: everything on it
\* was placed relative to the origin and at the zoom of that moment
Composed(t) == [composed |-> TRUE, map_x |-> t.priv.map_x, map_y |-> t.priv.map_y,
                map_zoom |-> t.priv.map_zoom]

\* the step of the model that runs one handler: t is the state after it
Commit(t, name, r) ==
    /\ WithinBounds(t)
    /\ priv' = t.priv
    /\ alloc' = t.alloc
    /\ idle_sources' = t.idle_sources
    /\ em' = t.em
    /\ op' = name[1]
    /\ ret' = r
    /\ UNCHANGED construct_props
    /\ IF name[1] = "map_redraw_idle"
       THEN /\ burst < MaxBurst
            /\ burst' = burst + 1
            /\ burst_enq' = burst_enq + Cardinality(t.idle_sources) - Cardinality(idle_sources)
       ELSE /\ burst' = 0
            /\ burst_enq' = 0
    /\ rejected' = CASE name[1] = "button_press"   -> (rejected \/ SomeLayerIn(Cur, name[3]))
                      [] name[1] = "button_release" -> FALSE
                      [] OTHER                      -> rejected
    /\ images_made' = IF name[1] = "image_add" THEN images_made + 1 ELSE images_made
    /\ surface' = CASE t.em.recomposed > 0   -> Composed(t)
                    [] name[1] = "configure" -> NoSurface
                    [] OTHER                 -> surface
    /\ ref_count' =
          LET made     == IF name[1] = "image_add" THEN Append(ref_count, 1) ELSE ref_count
              Calls(q, id) == Cardinality({k \in 1..Len(q) : q[k].id = id})
          IN  [id \in 1..Len(made) |->
                 made[id] + Calls(t.em.ref, id) - Calls(t.em.unref, id)]

Alive == ~priv.is_disposed

(***************************************************************************)
(* Initial states                                                          *)
(***************************************************************************)
InitWith(props) ==
    LET s == osm_gps_map_constructor(props)
    IN  /\ priv = s.priv
        /\ alloc = s.alloc
        /\ idle_sources = s.idle_sources
        /\ em = s.em
        /\ op = "constructor"
        /\ ret = 0
        /\ construct_props = props
        /\ burst = 0
        /\ burst_enq = 0
        /\ rejected = FALSE
        /\ images_made = 0
        /\ surface = NoSurface
        /\ ref_count = << >>

Init == InitWith(DefaultProps)

(***************************************************************************)
(* Actions                                                                 *)
(***************************************************************************)
RequestRedraw ==
    /\ Alive
    /\ Commit(osm_gps_map_map_redraw_idle(Cur), <<"map_redraw_idle">>, 0)

\* the main loop runs one enqueued idle callback; both callbacks return
\* FALSE, which removes the source
\* the main loop runs the enqueued callback src = osm_gps_map_map_redraw
\* while the layers of `busy` report busy
IdleRedraw(src, busy) ==
    /\ Alive
    /\ src \in idle_sources
    /\ src.fn = "osm_gps_map_map_redraw"
    /\ busy \subseteq LayersOf(Cur)
    /\ Commit(osm_gps_map_map_redraw(g_source_remove(Cur, src.id), busy),
              <<"map_redraw", busy>>, 0)

IdleDispatch ==
    /\ Alive
    /\ \E src \in idle_sources :
         IF src.fn = "osm_gps_map_map_redraw"
         THEN \E busy \in SUBSET LayersOf(Cur) : IdleRedraw(src, busy)
         ELSE Commit(osm_gps_map_idle_expose(g_source_remove(Cur, src.id)),
                     <<"idle_expose">>, 0)

ConfigureStep(size, busy) ==
    /\ Alive
    /\ busy \subseteq LayersOf(Cur)
    /\ Commit(osm_gps_map_configure(Cur, size, busy), <<"configure", size, busy>>, 0)

Configure == \E size \in Sizes, busy \in SUBSET LayersOf(Cur) : ConfigureStep(size, busy)

SetZoom(zoom) ==
    /\ Alive
    /\ LET t == osm_gps_map_set_zoom(Cur, zoom)
       IN  Commit(t, <<"set_zoom", zoom>>, t.priv.map_zoom)

SetCenterStep(pt) ==
    /\ Alive
    /\ Commit(osm_gps_map_set_center(Cur, pt[1], pt[2]), <<"set_center", pt>>, 0)

SetCenter == \E pt \in CenterPoints : SetCenterStep(pt)

ScrollStep(d) ==
    /\ Alive
    /\ Commit(osm_gps_map_scroll(Cur, d[1], d[2]), <<"scroll", d>>, 0)

Scroll == \E d \in ScrollSteps : ScrollStep(d)

ButtonPressStep(pos, consuming) ==
    /\ Alive
    /\ Commit(osm_gps_map_button_press(Cur, [x |-> pos[1], y |-> pos[2]], consuming),
              <<"button_press", pos, consuming>>, 0)

ButtonPress ==
    \E pos \in PressPositions, consuming \in SUBSET LayersOf(Cur) :
        ButtonPressStep(pos, consuming)

MotionStep(pos, button1) ==
    /\ Alive
    /\ Commit(osm_gps_map_motion_notify(Cur, [x |-> pos[1], y |-> pos[2], button1 |-> button1]),
              <<"motion_notify", pos, button1>>, 0)

MotionNotify == \E pos \in MotionPositions, button1 \in BOOLEAN : MotionStep(pos, button1)

ReleaseStep(pos) ==
    /\ Alive
    /\ Commit(osm_gps_map_button_release(Cur, [x |-> pos[1], y |-> pos[2]]),
              <<"button_release", pos>>, 0)

ButtonRelease == \E pos \in ReleasePositions : ReleaseStep(pos)

\* the host adds the first layer that is not on the map
LayerAdd ==
    /\ Alive
    /\ LayerIds \ LayersOf(Cur) # {}
    /\ LET layer == CHOOSE l \in LayerIds \ LayersOf(Cur) :
                        \A k \in LayerIds \ LayersOf(Cur) : l <= k
       IN  Commit(osm_gps_map_layer_add(Cur, layer), <<"layer_add", layer>>, 0)

Dispose ==
    /\ Alive
    /\ Commit(osm_gps_map_dispose(Cur), <<"dispose">>, 0)

\* a callback left on the main loop runs against the disposed widget
DispatchAfterDispose ==
    /\ ~Alive
    /\ \E src \in idle_sources :
         Commit(g_source_remove(Cur, src.id), <<"use_after_dispose", src.fn>>, 0)

Next ==
    \/ RequestRedraw
    \/ IdleDispatch
    \/ Configure
    \/ SetCenter
    \/ Scroll
    \/ ButtonPress
    \/ MotionNotify
    \/ ButtonRelease
    \/ LayerAdd
    \/ Dispose
    \/ DispatchAfterDispose

Spec == Init /\ [][Next]_vars

(***************************************************************************)
(* The redraw scheduler alone: redraw requests, the mutators that make     *)
(* them, resizes, the main loop and teardown, without pointer events       *)
(***************************************************************************)
NextRedraw ==
    \/ RequestRedraw
    \/ IdleDispatch
    \/ Configure
    \/ SetCenter
    \/ Scroll
    \/ LayerAdd
    \/ Dispose
    \/ DispatchAfterDispose

SpecRedraw == Init /\ [][NextRedraw]_vars

(***************************************************************************)
(* The drag gesture alone: pointer events, the main loop, resizes and      *)
(* layers that may consume a press                                         *)
(***************************************************************************)
NextDrag ==
    \/ ButtonPress
    \/ MotionNotify
    \/ ButtonRelease
    \/ IdleDispatch
    \/ Configure
    \/ LayerAdd

SpecDrag == Init /\ [][NextDrag]_vars

\* the drag gesture under the scheduling the redraws rely on: the main loop
\* runs every enqueued idle callback, a drag in progress is released, and a
\* redraw callback that keeps being enqueued runs at some time when no drag
\* is in progress and no layer is busy
LiveDrag ==
    /\ SpecDrag
    /\ WF_vars(IdleDispatch /\ op' = "idle_expose")
    /\ WF_vars(IdleDispatch /\ op' = "map_redraw")
    /\ SF_vars(priv.is_dragging /\ ButtonRelease)
    /\ SF_vars(~priv.is_dragging /\ \E src \in idle_sources : IdleRedraw(src, {}))

(***************************************************************************)
(* The drag gesture with the teardown of the widget                        *)
(***************************************************************************)
NextDragDispose == NextDrag \/ Dispose \/ DispatchAfterDispose

SpecDragDispose == Init /\ [][NextDragDispose]_vars

(***************************************************************************)
(* GPS fixes and the auto-center policy                                    *)
(***************************************************************************)
GpsSizes == {<<800, 600>>, <<80, 60>>}

\* where the fixes are, in pixels of the default zoom from the initial
\* center: on it, at and next to the edges of the band of an 800x600
\* viewport, and beyond the band of an 80x60 one
GpsFixOffsets ==
    {<<0, 0>>, <<99, 0>>, <<100, 0>>, <<101, 0>>, <<-100, 0>>, <<-101, 0>>,
     <<0, 75>>, <<0, 76>>, <<0, -76>>, <<11, 0>>}

\* the (latitude, longitude) arguments of gps_add
GpsFixes ==
    {<<pixel2lat(DefaultZoom, lat2pixel(DefaultZoom, HomeLat) + d[2]),
       pixel2lon(DefaultZoom, lon2pixel(DefaultZoom, HomeLon) + d[1])>> : d \in GpsFixOffsets}

GpsAddStep(fix) ==
    /\ Alive
    /\ Commit(osm_gps_map_gps_add(Cur, fix[1], fix[2]), <<"gps_add", fix>>, 0)

GpsAdd == \E fix \in GpsFixes : GpsAddStep(fix)

ConfigureGps == \E size \in GpsSizes : ConfigureStep(size, {})

\* g_object_set (map, "auto-center", value, NULL)
SetAutoCenter ==
    /\ Alive
    /\ \E value \in BOOLEAN :
         Commit(osm_gps_map_set_property(Cur, "auto-center", value),
                <<"set_property", "auto-center", value>>, 0)

NextGps ==
    \/ GpsAdd
    \/ ConfigureGps
    \/ SetAutoCenter
    \/ SetCenter
    \/ IdleDispatch

SpecGps == Init /\ [][NextGps]_vars

\* GPS fixes while the user drags an 800x600 map by (11, 0): fixes on the
\* initial center and one pixel beyond the band
GpsAddNear ==
    \E fix \in GpsFixes :
        /\ fix[1] = HomeLat
        /\ fix[2] \in {HomeLon, pixel2lon(DefaultZoom, lon2pixel(DefaultZoom, HomeLon) + 101)}
        /\ GpsAddStep(fix)

NextAuto ==
    \/ GpsAddNear
    \/ ConfigureStep(<<800, 600>>, {})
    \/ SetAutoCenter
    \/ SetCenter
    \/ ButtonPress
    \/ MotionStep(<<11, 0>>, TRUE)
    \/ ReleaseStep(<<11, 0>>)

SpecAuto == Init /\ [][NextAuto]_vars

(***************************************************************************)
(* The marker store and the layer store                                    *)
(***************************************************************************)
\* the z-order of a new image
ZOrders == {1, 2, 3}

ImagesOf(s) == {s.priv.images[i] : i \in 1..Len(s.priv.images)}

\* the images the host holds a reference to (osm_gps_map_image_add returns
\* one to each image it creates): those on the map, and those created and
\* removed since, whatever their z-order was
ImageRefs ==
    ImagesOf(Cur) \cup
    {im \in [id : 1..images_made, zorder : ZOrders] :
        \A on \in ImagesOf(Cur) : on.id # im.id}

ImageAdd ==
    /\ Alive
    /\ images_made < MaxImages
    /\ \E zorder \in ZOrders :
         LET im == [id |-> images_made + 1, zorder |-> zorder]
         IN  Commit(osm_gps_map_image_add_with_alignment_z(Cur, im), <<"image_add", im>>, 0)

ImageRemoveStep(image) ==
    /\ Alive
    /\ Commit(osm_gps_map_image_remove(Cur, image), <<"image_remove", image>>,
              IF osm_gps_map_image_remove_found(Cur, image) THEN 1 ELSE 0)

\* the host removes an image it holds: one on the map, or one removed before
ImageRemove == \E image \in ImageRefs : ImageRemoveStep(image)

ImageRemoveAll ==
    /\ Alive
    /\ Commit(osm_gps_map_image_remove_all(Cur), <<"image_remove_all">>, 0)

\* the host sets a property (the alignment) of an image that is on the map
ImageChanged ==
    /\ Alive
    /\ \E i \in 1..Len(priv.images) :
         Commit(on_image_changed(Cur), <<"image_changed", priv.images[i]>>, 0)

LayerRemoveStep(layer) ==
    /\ Alive
    /\ Commit(osm_gps_map_layer_remove(Cur, layer), <<"layer_remove", layer>>,
              IF osm_gps_map_layer_remove_found(Cur, layer) THEN 1 ELSE 0)

LayerRemove == \E layer \in LayerIds : LayerRemoveStep(layer)

LayerRemoveAll ==
    /\ Alive
    /\ Commit(osm_gps_map_layer_remove_all(Cur), <<"layer_remove_all">>, 0)

NextStore ==
    \/ ImageAdd
    \/ ImageRemove
    \/ ImageRemoveAll
    \/ ImageChanged
    \/ LayerAdd
    \/ LayerRemove
    \/ LayerRemoveAll
    \/ IdleDispatch

SpecStore == Init /\ [][NextStore]_vars

\* the host sets a property of an image it holds a reference to, on the map
\* or taken off it: the "notify" handler connected at line 1644 is
\* disconnected nowhere, so on_image_changed runs either way
ImageNotifyStep(image) ==
    /\ Alive
    /\ ref_count[image.id] > 0
    /\ Commit(on_image_changed(Cur), <<"image_notify", image>>, 0)

ImageNotify == \E image \in ImageRefs : ImageNotifyStep(image)

\* the life of the images from their creation to the teardown of the widget
NextMarkers ==
    \/ ImageAdd
    \/ ImageRemove
    \/ ImageRemoveAll
    \/ ImageNotify
    \/ IdleDispatch
    \/ Dispose

SpecMarkers == Init /\ [][NextMarkers]_vars

(***************************************************************************)
(* The dispatch of a button press to the layers, in every order the layers *)
(* can be in, after the viewport has moved                                 *)
(***************************************************************************)
\* the host adds any layer that is not on the map
NextPress ==
    \/ /\ Alive
       /\ \E layer \in (1..(MaxLayers + 1)) \ LayersOf(Cur) :
            Commit(osm_gps_map_layer_add(Cur, layer), <<"layer_add", layer>>, 0)
    \/ LayerRemove
    \/ \E pos \in PressPositions \cup {<<3, 4>>}, consuming \in SUBSET LayersOf(Cur) :
          ButtonPressStep(pos, consuming)
    \/ ButtonRelease
    \/ Scroll

SpecPress == Init /\ [][NextPress]_vars

(***************************************************************************)
(* The zoom operations, from every construction the zoom properties admit  *)
(***************************************************************************)
\* every zoom of the property range, with map-x and map-y putting the middle
\* of the world (latitude 0, longitude 0) at the origin of the viewport
ZoomConstructProps ==
    {[DefaultProps EXCEPT !.zoom = z, !.min_zoom = b[1], !.max_zoom = b[2],
                          !.map_x = WorldSize(z) \div 2, !.map_y = WorldSize(z) \div 2] :
        z \in MIN_ZOOM..MAX_ZOOM, b \in ZoomBoundsProps}

InitZoom == \E props \in ZoomConstructProps : InitWith(props)

SetZoomAny == \E zoom \in ZoomRequests : SetZoom(zoom)

ZoomIn ==
    /\ Alive
    /\ LET t == osm_gps_map_zoom_in(Cur)
       IN  Commit(t, <<"zoom_in">>, t.priv.map_zoom)

ZoomOut ==
    /\ Alive
    /\ LET t == osm_gps_map_zoom_out(Cur)
       IN  Commit(t, <<"zoom_out">>, t.priv.map_zoom)

\* the wheel turns with the pointer over the middle of the widget
ScrollEventStep(direction) ==
    /\ Alive
    /\ LET event == [direction |-> direction,
                     x |-> CDiv(Width(Cur), 2), y |-> CDiv(Height(Cur), 2)]
       IN  Commit(osm_gps_map_scroll_event(Cur, event), <<"scroll_event", event>>, 0)

ScrollEvent == \E direction \in ScrollDirections : ScrollEventStep(direction)

SetKeyboardShortcutStep(kb) ==
    /\ Alive
    /\ Commit(osm_gps_map_set_keyboard_shortcut(Cur, kb[1], kb[2]),
              <<"set_keyboard_shortcut", kb>>, 0)

SetKeyboardShortcut == \E kb \in KeyBindingRequests : SetKeyboardShortcutStep(kb)

KeyPressStep(keyval) ==
    /\ Alive
    /\ Commit(on_window_key_press(Cur, keyval), <<"key_press", keyval>>,
              IF on_window_key_press_handled(Cur, keyval) THEN 1 ELSE 0)

KeyPress == \E keyval \in KeyVals : KeyPressStep(keyval)

SetCenterAndZoom ==
    /\ Alive
    /\ \E zoom \in CenterZoomRequests :
         Commit(osm_gps_map_set_center_and_zoom(Cur, HomeLat, HomeLon, zoom),
                <<"set_center_and_zoom", zoom>>, 0)

ZoomFitBbox ==
    /\ Alive
    /\ \E bbox \in BboxesAround(HomeLat, HomeLon) :
         Commit(osm_gps_map_zoom_fit_bbox(Cur, bbox[1], bbox[2], bbox[3], bbox[4]),
                <<"zoom_fit_bbox", bbox>>, 0)

NextZoom ==
    \/ SetZoomAny
    \/ ZoomIn
    \/ ZoomOut
    \/ ScrollEvent
    \/ SetKeyboardShortcut
    \/ KeyPress
    \/ SetCenterAndZoom
    \/ ZoomFitBbox
    \/ IdleDispatch

SpecZoom == InitZoom /\ [][NextZoom]_vars

(***************************************************************************)
(* Centering and zooming                                                   *)
(***************************************************************************)
\* set_center to points that fall between the pixels of the default zoom
SetCenterFine ==
    \E d \in {<<0, 0>>, <<70000, 65535>>, <<-1, 65536>>} :
        SetCenterStep(<<HomeLat + d[1], HomeLon + d[2]>>)

\* set_zoom to the ends of the default range, the default level and the
\* levels next to it and beyond the range
NextCenterZoom ==
    \/ SetCenterFine
    \/ \E zoom \in {OSM_MIN_ZOOM, DefaultZoom, DefaultZoom + 1, OSM_MAX_ZOOM,
                     OSM_MAX_ZOOM + 1} : SetZoom(zoom)
    \/ ConfigureGps
    \/ IdleDispatch

SpecCenterZoom == Init /\ [][NextCenterZoom]_vars

(***************************************************************************)
(* The keyboard alone: bindings of GDK_KEY_plus and GDK_KEY_minus, presses *)
(* of those keys and of a key that has no symbol (keyval 0, NoSymbol).     *)
(***************************************************************************)
NextKeys ==
    \/ SetKeyboardShortcut
    \/ \E keyval \in KeyVals \cup {0} : KeyPressStep(keyval)
    \/ ConfigureStep(<<80, 60>>, {})
    \/ IdleDispatch

SpecKeys == Init /\ [][NextKeys]_vars

(***************************************************************************)
(* Every operation that moves the viewport, on a 100x50 map, in steps of   *)
(* 10 pixels: set_center back to the initial center, set_zoom to the       *)
(* default level and the one below, scroll, the RIGHT key (GDK_KEY_Right;  *)
(* the step is width/10), a drag by (-10, 0), a GPS fix 10 pixels below    *)
(* the initial center (beyond the band of 50/8 pixels), and the resize.    *)
(***************************************************************************)
ViewFix == <<pixel2lat(DefaultZoom, lat2pixel(DefaultZoom, HomeLat) + 10), HomeLon>>

NextView ==
    \/ ConfigureStep(<<100, 50>>, {})
    \/ SetCenterStep(<<HomeLat, HomeLon>>)
    \/ SetZoom(DefaultZoom)
    \/ SetZoom(DefaultZoom - 1)
    \/ ScrollStep(<<10, 0>>)
    \/ SetKeyboardShortcutStep(<<"RIGHT", 65363>>)
    \/ KeyPressStep(65363)
    \/ ButtonPress
    \/ MotionStep(<<-10, 0>>, TRUE)
    \/ ReleaseStep(<<-10, 0>>)
    \/ GpsAddStep(ViewFix)

SpecView == Init /\ [][NextView]_vars

(***************************************************************************)
(* Claims                                                                  *)
(***************************************************************************)
SquaredDistance(pos) ==
    (pos[1] - priv.drag_start_mouse_x) * (pos[1] - priv.drag_start_mouse_x)
    + (pos[2] - priv.drag_start_mouse_y) * (pos[2] - priv.drag_start_mouse_y)

DragLimitSquared == priv.drag_limit * priv.drag_limit

\* the states of the drag state machine
Armed == priv.is_button_down /\ priv.drag_counter = 0

Dragging == priv.is_dragging /\ priv.drag_counter > 0

\* C1: n >= 1 calls of osm_gps_map_map_redraw_idle made in a row, with no
\* main-loop turn between them, enqueue at most one redraw callback, exactly
\* one when none was registered before the first call, and leave one
\* registered; every call after the first changes nothing; the callback, when
\* the main loop runs it, invokes osm_gps_map_map_redraw once and is gone.
C1_RedrawCoalescing ==
    [][/\ burst' >= 1 =>
            /\ burst_enq' <= 1
            /\ priv'.idle_map_redraw # 0
            /\ \E src \in idle_sources' :
                   src.id = priv'.idle_map_redraw /\ src.fn = "osm_gps_map_map_redraw"
            /\ (burst' = 1 /\ priv.idle_map_redraw = 0) => burst_enq' = 1
            /\ burst' >= 2 => UNCHANGED <<priv, alloc, idle_sources>>
       /\ op' = "map_redraw" =>
            /\ em'.redraw = 1
            /\ Cardinality(idle_sources') = Cardinality(idle_sources) - 1
      ]_vars

C1_Witness ==
    /\ burst >= 2
    /\ burst_enq = 1
    /\ Cardinality(RedrawSources) = 1

\* C2: while the widget lives, at most one deferred-redraw callback is
\* enqueued on the main loop, and idle_map_redraw is non-zero exactly when
\* one is enqueued.
C2_AtMostOneRedrawEnqueued ==
    Alive =>
        /\ Cardinality(RedrawSources) <= 1
        /\ priv.idle_map_redraw # 0 <=> RedrawSources # {}

\* C3: once the widget is disposed no idle callback (deferred redraw or
\* fast-path repaint) remains enqueued on the main loop.
C3_NoCallbackAfterDispose ==
    priv.is_disposed => idle_sources = {}

\* C4: in every state osm_gps_map_set_zoom returns into, the value returned
\* lies in [min_zoom, max_zoom] and is the zoom the viewport now holds.
C4_ZoomClamp ==
    op = "set_zoom" =>
        /\ priv.min_zoom <= ret
        /\ ret <= priv.max_zoom
        /\ ret = priv.map_zoom

\* C5: osm_gps_map_set_zoom called with the zoom the viewport already has
\* changes nothing: zoom, map_x, map_y, the center and every other field are
\* as before, no idle callback is added, neither "changed" nor the zoom
\* notification is emitted, and the current zoom is returned.
C5_SetZoomCurrentIsNoOp ==
    [][\A zoom \in ZoomRequests :
          (zoom = priv.map_zoom /\ SetZoom(zoom)) =>
              /\ UNCHANGED <<priv, alloc, idle_sources>>
              /\ em' = NoEmission
              /\ ret' = zoom
      ]_vars

\* set_zoom has returned without emitting anything while no redraw was
\* pending: the call with the current zoom
C5_Witness ==
    /\ op = "set_zoom"
    /\ ret = priv.map_zoom
    /\ priv.min_zoom <= ret /\ ret <= priv.max_zoom
    /\ em = NoEmission
    /\ priv.idle_map_redraw = 0
    /\ idle_sources = {}

\* C6: min_zoom <= zoom <= max_zoom in every state from construction on.
C6_ZoomInvariant ==
    /\ priv.min_zoom <= priv.map_zoom
    /\ priv.map_zoom <= priv.max_zoom

\* C7: osm_gps_map_set_zoom clamps a request for another zoom to the min-zoom
\* and max-zoom the widget was constructed with.
C7_ConstructionBoundsClampZoom ==
    [][\A zoom \in ZoomRequests :
          (zoom # priv.map_zoom /\ SetZoom(zoom)) =>
              priv'.map_zoom = CLAMP(zoom, construct_props.min_zoom, construct_props.max_zoom)
      ]_vars

\* C8 (as stated): a motion event in ARMED whose squared distance from the
\* press position is below drag_limit^2 changes nothing; any other motion
\* event in ARMED starts the drag.
C8_DragThreshold_AsStated ==
    [][\A pos \in MotionPositions, button1 \in BOOLEAN :
          (Armed /\ MotionStep(pos, button1)) =>
              IF SquaredDistance(pos) < DragLimitSquared
              THEN UNCHANGED <<priv, alloc, idle_sources>>
              ELSE priv'.is_dragging
      ]_vars

\* C8 (amended): a motion event in ARMED that is below the threshold, or
\* whose modifier state does not hold button 1, changes nothing; a motion
\* event with button 1 held at squared distance >= drag_limit^2 starts the
\* drag: is_dragging is set, auto-center is disabled, the displacement is
\* recorded and a fast-path repaint is pending.
C8_DragThreshold ==
    [][\A pos \in MotionPositions, button1 \in BOOLEAN :
          (Armed /\ MotionStep(pos, button1)) =>
              IF SquaredDistance(pos) < DragLimitSquared \/ ~button1
              THEN UNCHANGED <<priv, alloc, idle_sources>>
              ELSE /\ priv'.is_dragging
                   /\ priv'.drag_counter = 1
                   /\ ~priv'.map_auto_center_enabled
                   /\ priv'.drag_mouse_dx = pos[1] - priv.drag_start_mouse_x
                   /\ priv'.drag_mouse_dy = pos[2] - priv.drag_start_mouse_y
                   /\ priv'.drag_expose_source # 0
      ]_vars

\* a drag started by a motion at exactly drag_limit from the press position
C8_Witness ==
    /\ op = "motion_notify"
    /\ priv.is_dragging
    /\ priv.drag_counter = 1
    /\ priv.drag_mouse_dx * priv.drag_mouse_dx + priv.drag_mouse_dy * priv.drag_mouse_dy
         = DragLimitSquared

\* C9: once DRAGGING, a motion event keeps the state DRAGGING whatever its
\* position: with button 1 held it records the displacement from the press
\* position and leaves exactly one fast-path repaint pending, otherwise it
\* changes nothing; it never changes the viewport or the recorded press;
\* and nothing but a button release ends the drag.
C9_DraggingUntilRelease ==
    [][/\ \A pos \in MotionPositions, button1 \in BOOLEAN :
            (Dragging /\ MotionStep(pos, button1)) =>
                /\ priv'.is_dragging /\ priv'.is_button_down /\ priv'.drag_counter > 0
                /\ priv'.map_x = priv.map_x /\ priv'.map_y = priv.map_y
                /\ priv'.map_zoom = priv.map_zoom
                /\ priv'.center_rlat = priv.center_rlat
                /\ priv'.center_rlon = priv.center_rlon
                /\ priv'.drag_start_mouse_x = priv.drag_start_mouse_x
                /\ priv'.drag_start_mouse_y = priv.drag_start_mouse_y
                /\ priv'.drag_start_map_x = priv.drag_start_map_x
                /\ priv'.drag_start_map_y = priv.drag_start_map_y
                /\ priv'.idle_map_redraw = priv.idle_map_redraw
                /\ Cardinality(SourcesOf(idle_sources', "osm_gps_map_idle_expose")) <= 1
                /\ button1 =>
                     /\ priv'.drag_mouse_dx = pos[1] - priv.drag_start_mouse_x
                     /\ priv'.drag_mouse_dy = pos[2] - priv.drag_start_mouse_y
                     /\ Cardinality(SourcesOf(idle_sources', "osm_gps_map_idle_expose")) = 1
                /\ ~button1 => UNCHANGED <<priv, alloc, idle_sources>>
       /\ (priv.is_dragging /\ op' # "button_release") => priv'.is_dragging
      ]_vars

\* a later motion event of a drag, back within the threshold of the press
C9_Witness ==
    /\ op = "motion_notify"
    /\ priv.is_dragging
    /\ priv.drag_counter >= 2
    /\ priv.drag_mouse_dx * priv.drag_mouse_dx + priv.drag_mouse_dy * priv.drag_mouse_dy
         < DragLimitSquared
    /\ priv.drag_mouse_dx # 0

\* C10: a button release while DRAGGING adds the drag's displacement (press
\* position minus release position: the map follows the pointer) to
\* map_x, map_y, recomputes the center from the new origin, ends the drag
\* (not dragging, button not down) and leaves a deferred redraw registered.
C10_ReleaseCommitsDrag ==
    [][\A pos \in ReleasePositions :
          (priv.is_dragging /\ priv.is_button_down /\ ReleaseStep(pos)) =>
              /\ priv'.map_x = priv.map_x + (priv.drag_start_mouse_x - pos[1])
              /\ priv'.map_y = priv.map_y + (priv.drag_start_mouse_y - pos[2])
              /\ priv'.center_rlon = pixel2lon(priv'.map_zoom, priv'.map_x + CDiv(alloc[1], 2))
              /\ priv'.center_rlat = pixel2lat(priv'.map_zoom, priv'.map_y + CDiv(alloc[2], 2))
              /\ ~priv'.is_dragging
              /\ ~priv'.is_button_down
              /\ priv'.idle_map_redraw # 0
      ]_vars

\* C11: a button release that arrives while no drag is in progress (after a
\* press that never crossed the threshold, after a press a layer consumed, or
\* with no press at all) leaves map_x, map_y, zoom, center and the
\* auto-center flag and every other field but the press bookkeeping as they
\* are, enqueues no callback, emits nothing, and leaves the gesture idle.
C11_ClickDoesNotMoveMap ==
    [][\A pos \in ReleasePositions :
          (~priv.is_dragging /\ ReleaseStep(pos)) =>
              /\ priv' = [priv EXCEPT !.drag_counter = IF priv.is_button_down THEN -1 ELSE @,
                                      !.is_button_down = FALSE]
              /\ UNCHANGED <<alloc, idle_sources>>
              /\ em' = NoEmission
              /\ ~priv'.is_dragging /\ ~priv'.is_button_down
      ]_vars

\* the release of a press that never became a drag (auto-center is still
\* enabled: no drag has started since construction)
C11_Witness ==
    /\ op = "button_release"
    /\ priv.drag_counter = -1
    /\ ~priv.is_button_down
    /\ priv.map_auto_center_enabled
    /\ priv.idle_map_redraw = 0

\* C12: from a press that a layer consumed until the next release, no motion
\* event starts a drag, changes the recorded displacement or disables
\* auto-center.
C12_ConsumedPressIsNoPan ==
    [][\A pos \in MotionPositions, button1 \in BOOLEAN :
          (rejected /\ MotionStep(pos, button1)) =>
              /\ priv'.is_dragging = priv.is_dragging
              /\ priv'.drag_counter = priv.drag_counter
              /\ priv'.drag_mouse_dx = priv.drag_mouse_dx
              /\ priv'.drag_mouse_dy = priv.drag_mouse_dy
              /\ priv'.map_auto_center_enabled = priv.map_auto_center_enabled
      ]_vars

\* C13: a redraw that finds no surface, a busy layer or a drag in progress
\* does not recompose: nothing is painted, and the redraw cycle counter, the
\* drag displacement and every other field but idle_map_redraw are as before.
\* This holds of the redraw the main loop runs and of the one a resize makes.
C13_RedrawSkipsRecomposition ==
    [][/\ \A src \in idle_sources, busy \in SUBSET LayerIds :
            (/\ op' = "map_redraw"
             /\ priv.pixmap = "none" \/ SomeLayerIn(Cur, busy) \/ priv.is_dragging
             /\ IdleRedraw(src, busy)) =>
                /\ priv' = [priv EXCEPT !.idle_map_redraw = 0]
                /\ em'.recomposed = 0
       /\ \A size \in Sizes, busy \in SUBSET LayerIds :
            (/\ op' = "configure"
             /\ SomeLayerIn(Cur, busy) \/ priv.is_dragging
             /\ ConfigureStep(size, busy)) =>
                /\ priv'.redraw_cycle = priv.redraw_cycle
                /\ priv'.drag_mouse_dx = priv.drag_mouse_dx
                /\ priv'.drag_mouse_dy = priv.drag_mouse_dy
                /\ em'.recomposed = 0
      ]_vars

\* the deferred redraw has run during a drag, with a surface and a non-zero
\* displacement, and painted nothing
C13_Witness ==
    /\ op = "map_redraw"
    /\ priv.is_dragging
    /\ priv.pixmap = "live"
    /\ priv.drag_mouse_dx # 0
    /\ em.redraw = 1
    /\ em.recomposed = 0

\* C14: a redraw that recomposes (surface present, no layer busy, no drag)
\* leaves drag_mouse_dx = drag_mouse_dy = 0 and counts one redraw cycle; the
\* redraw the main loop runs changes nothing else, in particular not map_x,
\* map_y, zoom or center.
C14_RecompositionResetsDisplacement ==
    [][/\ \A src \in idle_sources, busy \in SUBSET LayerIds :
            (/\ op' = "map_redraw"
             /\ priv.pixmap # "none" /\ ~SomeLayerIn(Cur, busy) /\ ~priv.is_dragging
             /\ IdleRedraw(src, busy)) =>
                /\ priv' = [priv EXCEPT !.idle_map_redraw = 0,
                                        !.drag_mouse_dx = 0, !.drag_mouse_dy = 0,
                                        !.redraw_cycle = @ + 1]
                /\ em'.recomposed = 1
       /\ em'.recomposed >= 1 => priv'.drag_mouse_dx = 0 /\ priv'.drag_mouse_dy = 0
      ]_vars

\* the first recomposition has run after a finished drag (released,
\* auto-center disabled by it), whose displacement it has cleared
C14_Witness ==
    /\ op = "map_redraw"
    /\ em.recomposed = 1
    /\ priv.redraw_cycle = 1
    /\ priv.drag_counter = -1
    /\ ~priv.map_auto_center_enabled
    /\ priv.drag_mouse_dx = 0
    /\ priv.drag_mouse_dy = 0

\* C15: the marker collection, which is the order osm_gps_map_print_images
\* paints in, is sorted by z-order ascending, and images of equal z-order
\* are in the order in which they were created and added.
C15_MarkerZOrder ==
    /\ \A i, j \in 1..Len(priv.images) :
          i < j => \/ priv.images[i].zorder < priv.images[j].zorder
                   \/ /\ priv.images[i].zorder = priv.images[j].zorder
                      /\ priv.images[i].id < priv.images[j].id
    /\ osm_gps_map_print_images(Cur) = [i \in 1..Len(priv.images) |-> priv.images[i].id]

\* z-orders 3, 1, 2 and then a second 1 were added: the store holds
\* 1, 1, 2, 3 with the earlier z = 1 image first
C15_Witness ==
    priv.images = << [id |-> 2, zorder |-> 1], [id |-> 4, zorder |-> 1],
                     [id |-> 3, zorder |-> 2], [id |-> 1, zorder |-> 3] >>

\* the elements of a list other than x, in their order
RECURSIVE Without(_, _)
Without(list, x) ==
    IF list = << >> THEN << >>
    ELSE IF Head(list) = x THEN Without(Tail(list), x)
    ELSE <<Head(list)>> \o Without(Tail(list), x)

\* C16: removing an image or a layer returns TRUE exactly when it was in its
\* store, and then the store is as before without it; otherwise the call
\* returns FALSE and the store is unchanged.  The other store is untouched.
C16_RemoveReportsPresence ==
    [][/\ op' = "image_remove" => \A image \in ImageRefs :
            ImageRemoveStep(image) =>
                /\ ret' = (IF \E i \in 1..Len(priv.images) : priv.images[i] = image
                           THEN 1 ELSE 0)
                /\ priv'.images = Without(priv.images, image)
                /\ ret' = 0 => priv'.images = priv.images
                /\ ret' = 1 => Len(priv'.images) = Len(priv.images) - 1
                /\ priv'.layers = priv.layers
       /\ op' = "layer_remove" => \A layer \in LayerIds :
            LayerRemoveStep(layer) =>
                /\ ret' = (IF layer \in LayersOf(Cur) THEN 1 ELSE 0)
                /\ priv'.layers = Without(priv.layers, layer)
                /\ ret' = 0 => priv'.layers = priv.layers
                /\ ret' = 1 => Len(priv'.layers) = Len(priv.layers) - 1
                /\ priv'.images = priv.images
      ]_vars

\* an image that is no longer on the map (it was removed before) has been
\* removed again while others are on the map: FALSE, store as it was
C16_Witness ==
    /\ op = "image_remove"
    /\ ret = 0
    /\ Len(priv.images) >= 1
    /\ images_made > Len(priv.images)

\* C17: after an image is added, an image that is on the map is removed,
\* all images are removed, or a property of an image on the map changes, a
\* deferred redraw is pending: idle_map_redraw names an enqueued
\* osm_gps_map_map_redraw callback; if one was pending before, it is the
\* same one and nothing was enqueued.
C17_StoreMutationRequestsRedraw ==
    [][(\/ op' = "image_add"
        \/ op' = "image_remove" /\ ret' = 1
        \/ op' = "image_remove_all"
        \/ op' = "image_changed") =>
            /\ priv'.idle_map_redraw # 0
            /\ \E src \in idle_sources' :
                  src.id = priv'.idle_map_redraw /\ src.fn = "osm_gps_map_map_redraw"
            /\ priv.idle_map_redraw # 0 =>
                  /\ priv'.idle_map_redraw = priv.idle_map_redraw
                  /\ idle_sources' = idle_sources
            /\ priv.idle_map_redraw = 0 =>
                  Cardinality(idle_sources') = Cardinality(idle_sources) + 1
      ]_vars

\* a property of one of two images on the map has changed, and exactly one
\* redraw is pending
C17_Witness ==
    /\ op = "image_changed"
    /\ Len(priv.images) >= 2
    /\ priv.idle_map_redraw # 0
    /\ Cardinality(RedrawSources) = 1

\* C18: set_center(lat, lon) turns auto-center off, stores (lat, lon) as the
\* center, sets map_x, map_y so that the pixel the point projects to at the
\* current zoom is at (width/2, height/2) of the viewport, leaves a deferred
\* redraw pending and emits "changed" once; the zoom is unchanged.
C18_SetCenter ==
    [][\A pt \in CenterPoints :
          SetCenterStep(pt) =>
              /\ ~priv'.map_auto_center_enabled
              /\ priv'.center_rlat = pt[1]
              /\ priv'.center_rlon = pt[2]
              /\ lon2pixel(priv.map_zoom, pt[2]) - priv'.map_x = alloc[1] \div 2
              /\ lat2pixel(priv.map_zoom, pt[1]) - priv'.map_y = alloc[2] \div 2
              /\ \E src \in idle_sources' :
                    src.id = priv'.idle_map_redraw /\ src.fn = "osm_gps_map_map_redraw"
              /\ em'.changed = 1
              /\ priv'.map_zoom = priv.map_zoom
              /\ alloc' = alloc
      ]_vars

\* set_center has run on an 800x600 viewport that was centered on a GPS fix
\* elsewhere: the center is the point asked for and auto-center is off
C18_Witness ==
    /\ op = "set_center"
    /\ alloc = <<800, 600>>
    /\ ~priv.map_auto_center_enabled
    /\ <<priv.center_rlat, priv.center_rlon>> \in CenterPoints
    /\ <<priv.gps.rlat, priv.gps.rlon>> \in GpsFixes
    /\ priv.map_x + 400 = lon2pixel(priv.map_zoom, priv.center_rlon)
    /\ priv.idle_map_redraw # 0

\* the screen position of a fix before the map has reacted to it
FixScreenX(fix) == lon2pixel(priv.map_zoom, fix[2]) - priv.map_x

FixScreenY(fix) == lat2pixel(priv.map_zoom, fix[1]) - priv.map_y

\* C19: on an 800x600 viewport with auto-center on, a fix at screen position
\* (800/2 + 800/8, 300) recenters the map on the fix, and a fix at
\* (800/2 + 800/8 - 1, 300) leaves the map where it is.
C19_AutoCenterBoundary ==
    [][\A fix \in GpsFixes :
          (/\ GpsAddStep(fix)
           /\ priv.map_auto_center_enabled
           /\ alloc = <<800, 600>>
           /\ FixScreenY(fix) = 300) =>
              /\ FixScreenX(fix) = 800 \div 2 + 800 \div 8 =>
                    /\ priv'.map_x = lon2pixel(priv.map_zoom, fix[2]) - 800 \div 2
                    /\ priv'.map_y = lat2pixel(priv.map_zoom, fix[1]) - 600 \div 2
              /\ FixScreenX(fix) = 800 \div 2 + 800 \div 8 - 1 =>
                    /\ priv'.map_x = priv.map_x
                    /\ priv'.map_y = priv.map_y
      ]_vars

\* C20: a fix that arrives while auto-center is on and lies outside the band
\* (width/2 +- width/8, height/2 +- height/8) moves the viewport so that
\* the fix is at (width/2, height/2), and the center is recomputed from the
\* new origin; a fix strictly inside the band leaves map_x, map_y and the
\* center as they were.  No fix changes the zoom.
C20_AutoCenterPolicy ==
    [][\A fix \in GpsFixes :
          GpsAddStep(fix) =>
              LET x == FixScreenX(fix)
                  y == FixScreenY(fix)
                  width  == alloc[1]
                  height == alloc[2]
                  outside ==
                      \/ x < width \div 2 - width \div 8
                      \/ x > width \div 2 + width \div 8
                      \/ y < height \div 2 - height \div 8
                      \/ y > height \div 2 + height \div 8
                  inside ==
                      /\ x > width \div 2 - width \div 8
                      /\ x < width \div 2 + width \div 8
                      /\ y > height \div 2 - height \div 8
                      /\ y < height \div 2 + height \div 8
              IN  /\ priv'.map_zoom = priv.map_zoom
                  /\ (priv.map_auto_center_enabled /\ outside) =>
                        /\ lon2pixel(priv.map_zoom, fix[2]) - priv'.map_x = width \div 2
                        /\ lat2pixel(priv.map_zoom, fix[1]) - priv'.map_y = height \div 2
                        /\ priv'.center_rlon =
                              pixel2lon(priv.map_zoom, priv'.map_x + width \div 2)
                        /\ priv'.center_rlat =
                              pixel2lat(priv.map_zoom, priv'.map_y + height \div 2)
                  /\ (priv.map_auto_center_enabled /\ inside) =>
                        /\ priv'.map_x = priv.map_x
                        /\ priv'.map_y = priv.map_y
                        /\ priv'.center_rlon = priv.center_rlon
                        /\ priv'.center_rlat = priv.center_rlat
      ]_vars

\* a fix below the band of an 800x600 viewport has recentered the map: the
\* fix is at (400, 300) and "changed" was emitted
C20_Witness ==
    /\ op = "gps_add"
    /\ alloc = <<800, 600>>
    /\ priv.map_auto_center_enabled
    /\ em.changed = 1
    /\ lon2pixel(priv.map_zoom, priv.gps.rlon) - priv.map_x = 400
    /\ lat2pixel(priv.map_zoom, priv.gps.rlat) - priv.map_y = 300
    /\ priv.gps.rlat = pixel2lat(DefaultZoom, lat2pixel(DefaultZoom, HomeLat) + 76)
    /\ priv.gps.rlon = HomeLon

\* C21: a motion that starts a drag and every set_center turn auto-center
\* off; while it is off a GPS fix changes neither map_x, map_y nor the
\* center and leaves it off; only a write of the auto-center property turns
\* it on again.
C21_AutoCenterStaysOff ==
    [][/\ \A pos \in MotionPositions, button1 \in BOOLEAN :
            (MotionStep(pos, button1) /\ ~priv.is_dragging /\ priv'.is_dragging) =>
                ~priv'.map_auto_center_enabled
       /\ \A pt \in CenterPoints :
            SetCenterStep(pt) => ~priv'.map_auto_center_enabled
       /\ (op' = "gps_add" /\ ~priv.map_auto_center_enabled) =>
                /\ <<priv'.gps.rlat, priv'.gps.rlon>> \in GpsFixes
                /\ priv'.map_x = priv.map_x
                /\ priv'.map_y = priv.map_y
                /\ priv'.center_rlat = priv.center_rlat
                /\ priv'.center_rlon = priv.center_rlon
                /\ ~priv'.map_auto_center_enabled
       /\ (~priv.map_auto_center_enabled /\ priv'.map_auto_center_enabled) =>
            op' = "set_property"
      ]_vars

\* during a drag on an 800x600 viewport a fix arrived one pixel beyond the
\* band, and the map was not recentered
C21_Witness ==
    /\ op = "gps_add"
    /\ alloc = <<800, 600>>
    /\ Dragging
    /\ ~priv.map_auto_center_enabled
    /\ lon2pixel(priv.map_zoom, priv.gps.rlon) - priv.map_x = 501
    /\ em.changed = 0

\* C22: once set_center(lat, lon) has been called (auto-center is off from
\* then on), every set_zoom(z2) with min_zoom <= z2 <= max_zoom leaves the
\* stored center at (lat, lon) and shows, at screen position
\* (width/2, height/2), a point within one pixel of the new zoom of it.
C22_CenterPreservedUnderZoom ==
    [][\A z2 \in ZoomRequests :
          (/\ op' = "set_zoom"
           /\ ~priv.map_auto_center_enabled
           /\ priv.min_zoom <= z2 /\ z2 <= priv.max_zoom
           /\ SetZoom(z2)) =>
              LET pt == osm_gps_map_convert_screen_to_geographic(
                            [priv |-> priv', alloc |-> alloc'],
                            alloc'[1] \div 2, alloc'[2] \div 2)
              IN  /\ priv'.map_zoom = z2
                  /\ priv'.center_rlat = priv.center_rlat
                  /\ priv'.center_rlon = priv.center_rlon
                  /\ Abs(pt[1] - priv.center_rlat) <= Pow2(GeoZoom - z2)
                  /\ Abs(pt[2] - priv.center_rlon) <= Pow2(GeoZoom - z2)
      ]_vars

\* the 800x600 map was centered between two pixels of the default zoom and
\* then zoomed to the greatest level
C22_Witness ==
    /\ op = "set_zoom"
    /\ alloc = <<800, 600>>
    /\ priv.map_zoom = OSM_MAX_ZOOM
    /\ em.notify_zoom = 1
    /\ priv.center_rlat = HomeLat + 70000
    /\ priv.center_rlon = HomeLon + 65535

C23_CenterMatchesViewport ==
    priv.pixmap # "none" =>
        /\ 2 * Abs(priv.center_rlon - ViewCenterLon(Cur)) <= Pow2(GeoZoom - priv.map_zoom)
        /\ 2 * Abs(priv.center_rlat - ViewCenterLat(Cur)) <= Pow2(GeoZoom - priv.map_zoom)

\* a drag has been committed on the allocated map and moved it
C23_Witness ==
    /\ op = "button_release"
    /\ priv.pixmap # "none"
    /\ em.changed >= 1
    /\ priv.map_x = priv.drag_start_map_x + 10
    /\ priv.center_rlon = ViewCenterLon(Cur)

(***************************************************************************)
(* C26: every operation that changes map_x, map_y, the cached center or    *)
(* the zoom emits "changed", and every operation that changes the zoom     *)
(* also emits the "zoom" property notification.                            *)
(***************************************************************************)
C26_ChangedNotification ==
    [][/\ (\/ priv'.map_x # priv.map_x
           \/ priv'.map_y # priv.map_y
           \/ priv'.center_rlon # priv.center_rlon
           \/ priv'.center_rlat # priv.center_rlat
           \/ priv'.map_zoom # priv.map_zoom) => em'.changed >= 1
       /\ priv'.map_zoom # priv.map_zoom => em'.notify_zoom >= 1]_vars

\* a set_zoom that changed the level of a map scrolled off its initial center
C26_Witness ==
    /\ op = "set_zoom"
    /\ priv.map_zoom = DefaultZoom - 1
    /\ priv.center_rlon # HomeLon
    /\ em.changed >= 1
    /\ em.notify_zoom >= 1

ShownAt(rlat, rlon) ==
    <<print_images_loc(surface, rlat, rlon)[1] + osm_gps_map_draw(Cur)[1],
      print_images_loc(surface, rlat, rlon)[2] + osm_gps_map_draw(Cur)[2]>>

C27_ScreenMatchesPainted ==
    surface.composed =>
        osm_gps_map_convert_geographic_to_screen(Cur, HomeLat, HomeLon)
            = ShownAt(HomeLat, HomeLon)

(***************************************************************************)
(* C28: a GPS fix added while trip-history recording is enabled extends    *)
(* the trip history by exactly that fix.                                   *)
(***************************************************************************)
C28_TripHistoryAppend ==
    [][(op' = "gps_add" /\ priv.trip_history_record_enabled) =>
           priv'.trip_history = Append(priv.trip_history, priv'.gps)]_vars

(***************************************************************************)
(* C29: before the first set_keyboard_shortcut every key press is reported *)
(* as not handled and changes nothing of the widget and its redraw         *)
(* schedule; after it, a press of a keyval that no set_keyboard_shortcut   *)
(* call has bound triggers no action.                                      *)
(***************************************************************************)
C29_KeyboardShortcuts ==
    [][\A keyval \in KeyVals \cup {0} :
         (op' = "key_press" /\ KeyPressStep(keyval)) =>
             /\ ~priv.keybindings_enabled =>
                    /\ ret' = 0
                    /\ priv' = priv
                    /\ idle_sources' = idle_sources
             /\ (\A kb \in KeyBindingRequests : priv.keybindings[kb[1]] # keyval) =>
                    /\ priv' = priv
                    /\ idle_sources' = idle_sources]_vars

(***************************************************************************)
(* C30: no motion event changes map_x, map_y, the zoom or the cached       *)
(* center, whatever the state of the drag; of the private state a motion   *)
(* event writes only the displacement drag_mouse_dx/dy, the drag's own     *)
(* bookkeeping (drag_counter, is_dragging, the pending expose callback)    *)
(* and the auto-center flag, which it only switches off and only on the    *)
(* motion that crosses the threshold; of the pointer events only the       *)
(* button release moves the origin.                                        *)
(***************************************************************************)
C30_MotionLeavesViewport ==
    [][/\ op' \in {"motion_notify", "button_press"} =>
            /\ priv'.map_x = priv.map_x
            /\ priv'.map_y = priv.map_y
            /\ priv'.map_zoom = priv.map_zoom
            /\ priv'.center_rlat = priv.center_rlat
            /\ priv'.center_rlon = priv.center_rlon
       /\ op' = "motion_notify" =>
            /\ [priv' EXCEPT !.drag_mouse_dx = priv.drag_mouse_dx,
                             !.drag_mouse_dy = priv.drag_mouse_dy,
                             !.drag_counter = priv.drag_counter,
                             !.is_dragging = priv.is_dragging,
                             !.drag_expose_source = priv.drag_expose_source,
                             !.map_auto_center_enabled = priv.map_auto_center_enabled]
                  = priv
            /\ alloc' = alloc
            /\ priv'.map_auto_center_enabled # priv.map_auto_center_enabled =>
                  /\ ~priv'.map_auto_center_enabled
                  /\ priv.drag_counter = 0
                  /\ priv'.drag_counter = 1]_vars

\* a motion past the threshold has set the displacement and left the origin
\* where the press found it
C30_Witness ==
    /\ op = "motion_notify"
    /\ priv.is_dragging
    /\ priv.drag_mouse_dx # 0
    /\ priv.pixmap # "none"
    /\ priv.map_x = priv.drag_start_map_x
    /\ ~priv.map_auto_center_enabled

(***************************************************************************)
(* C31: in every state drag_expose_source is non-zero exactly when an     *)
(* osm_gps_map_idle_expose callback is enqueued.                           *)
(***************************************************************************)
C31_ExposeSourceExact ==
    priv.drag_expose_source # 0
        <=> \E src \in idle_sources : src.fn = "osm_gps_map_idle_expose"

(***************************************************************************)
(* C31, for the widget before its teardown: after every step that leaves   *)
(* the widget undisposed at most one osm_gps_map_idle_expose callback is   *)
(* enqueued, and drag_expose_source is its id when there is one and 0 when *)
(* there is none; the callback, when it runs, clears drag_expose_source    *)
(* and changes nothing else (no recomposition, same redraw cycle,          *)
(* displacement, viewport and pending redraw); a dragging motion leaves a  *)
(* repaint pending and a committing release leaves a redraw pending,       *)
(* whatever the other of the two callbacks is doing, and neither touches   *)
(* the other's callback.                                                   *)
(***************************************************************************)
C31_RepaintCoalescing ==
    [][LET Exposes(set) == {src \in set : src.fn = "osm_gps_map_idle_expose"}
           Redraws(set) == {src \in set : src.fn = "osm_gps_map_map_redraw"}
       IN  /\ Cardinality(Exposes(idle_sources')) <= 1
           /\ ~priv'.is_disposed =>
                 (priv'.drag_expose_source # 0 <=> Exposes(idle_sources') # {})
           /\ \A src \in Exposes(idle_sources') : src.id = priv'.drag_expose_source
           /\ op' = "idle_expose" =>
                 /\ priv' = [priv EXCEPT !.drag_expose_source = 0]
                 /\ em'.recomposed = 0
                 /\ surface' = surface
                 /\ Redraws(idle_sources') = Redraws(idle_sources)
           /\ (op' = "motion_notify" /\ priv'.drag_counter > priv.drag_counter) =>
                 /\ Exposes(idle_sources') # {}
                 /\ Redraws(idle_sources') = Redraws(idle_sources)
                 /\ priv'.idle_map_redraw = priv.idle_map_redraw
           /\ (op' = "button_release" /\ em'.changed >= 1) =>
                 /\ \E src \in Redraws(idle_sources') : src.id = priv'.idle_map_redraw
                 /\ Exposes(idle_sources') = Exposes(idle_sources)
                 /\ priv'.drag_expose_source = priv.drag_expose_source]_vars

\* a dragging motion found a redraw pending and a repaint not: both
\* callbacks are now enqueued
C31_Witness ==
    /\ op = "motion_notify"
    /\ priv.is_dragging
    /\ priv.idle_map_redraw # 0
    /\ priv.drag_expose_source # 0
    /\ priv.drag_expose_source # priv.idle_map_redraw
    /\ Cardinality(idle_sources) = 2

(***************************************************************************)
(* C32: an image added to the map is owned by the store and by the caller, *)
(* one reference each.  Adding takes the one extra reference; remove,      *)
(* remove_all and dispose release one reference for each image they take   *)
(* out of the store and none for an image that is not in it, so an image   *)
(* the caller holds is never released below the caller's reference.        *)
(***************************************************************************)
C32_SharedOwnership ==
    [][LET Stored(images, id) == \E i \in 1..Len(images) : images[i].id = id
       IN  /\ \A id \in 1..Len(ref_count') :
                 ref_count'[id] = IF Stored(priv'.images, id) THEN 2 ELSE 1
           /\ op' = "image_add" =>
                 /\ Len(ref_count') = Len(ref_count) + 1
                 /\ Len(em'.ref) = 1 /\ em'.unref = << >>
                 /\ Stored(priv'.images, em'.ref[1].id)
           /\ \A image \in ImageRefs :
                 (op' = "image_remove" /\ ImageRemoveStep(image)) =>
                     em'.unref = IF image \in ImagesOf(Cur) THEN <<image>> ELSE << >>
           /\ op' \in {"image_remove_all", "dispose"} =>
                 /\ em'.unref = priv.images
                 /\ priv'.images = << >>
                 /\ ref_count' = [id \in 1..Len(ref_count) |-> 1]
           /\ Len(ref_count') = images_made']_vars

\* an image is removed a second time, after remove_all emptied the store,
\* and still has the caller's reference
C32_Witness ==
    /\ op = "image_remove"
    /\ ret = 0
    /\ em.unref = << >>
    /\ images_made >= 2
    /\ priv.images = << >>
    /\ \A id \in 1..images_made : ref_count[id] = 1

(***************************************************************************)
(* C36: a change of a property of an image that was taken out of the store *)
(* requests no redraw: the widget observes an image only while it is in    *)
(* the store.                                                              *)
(***************************************************************************)
C36_RemovedImageUnobserved ==
    [][\A image \in ImageRefs :
         (/\ op' = "image_notify"
          /\ image \notin ImagesOf(Cur)
          /\ ImageNotifyStep(image))
         => /\ em'.redraw = 0
            /\ priv'.idle_map_redraw = priv.idle_map_redraw
            /\ idle_sources' = idle_sources]_vars

(***************************************************************************)
(* C33: the drag flags are consistent in every reachable state, whatever   *)
(* the order of presses, motions and releases: a drag is in progress only  *)
(* with the button down and a non-zero motion count, and a zero motion     *)
(* count means no drag is in progress.                                     *)
(***************************************************************************)
C33_DragFlagsConsistent ==
    /\ priv.is_dragging => (priv.is_button_down /\ priv.drag_counter > 0)
    /\ priv.drag_counter = 0 => ~priv.is_dragging

(***************************************************************************)
(* C34: a change of the viewport made between press and release (scroll,   *)
(* key pan, set_center, set_zoom, auto-center, resize) is still in effect  *)
(* after the release: the release moves the origin it finds by the drag's  *)
(* displacement, and does not go back to the origin saved at press time.   *)
(***************************************************************************)
C34_ViewportChangeSurvivesRelease ==
    [][\A pos \in ReleasePositions \cup {<<-10, 0>>} :
          (op' = "button_release" /\ priv.is_dragging /\ ReleaseStep(pos)) =>
              /\ priv'.map_x - priv.map_x = priv.drag_start_mouse_x - pos[1]
              /\ priv'.map_y - priv.map_y = priv.drag_start_mouse_y - pos[2]
              /\ priv'.map_zoom = priv.map_zoom
      ]_vars

(***************************************************************************)
(* C37: zoom_in at max_zoom, zoom_out at min_zoom and any set_zoom whose   *)
(* clamped value equals the current zoom change nothing: zoom, map_x and   *)
(* map_y stay, neither "changed" nor the zoom notification is emitted and  *)
(* no redraw is requested.                                                 *)
(***************************************************************************)
C37_NoChangeNoNotification ==
    [][LET Quiet == /\ priv'.map_zoom = priv.map_zoom
                    /\ priv'.map_x = priv.map_x
                    /\ priv'.map_y = priv.map_y
                    /\ em'.changed = 0
                    /\ em'.notify_zoom = 0
                    /\ priv'.idle_map_redraw = priv.idle_map_redraw
                    /\ idle_sources' = idle_sources
       IN  /\ (op' = "zoom_in" /\ priv.map_zoom = priv.max_zoom) => Quiet
           /\ (op' = "zoom_out" /\ priv.map_zoom = priv.min_zoom) => Quiet
           /\ \A zoom \in ZoomRequests :
                 (/\ op' = "set_zoom"
                  /\ CLAMP(zoom, priv.min_zoom, priv.max_zoom) = priv.map_zoom
                  /\ SetZoom(zoom)) => Quiet]_vars

(***************************************************************************)
(* C38: a scroll-up event at max_zoom and a scroll-down event at min_zoom  *)
(* leave zoom, center, map_x, map_y and the auto-center flag as they are   *)
(* and request no redraw; any other scroll event changes the zoom by       *)
(* exactly one step in the scrolled direction and disables auto-center.    *)
(***************************************************************************)
C38_ScrollZoomRespectsBounds ==
    [][\A direction \in ScrollDirections :
         (op' = "scroll_event" /\ ScrollEventStep(direction)) =>
            LET up == direction = "GDK_SCROLL_UP"
            IN  IF \/ up /\ priv.map_zoom = priv.max_zoom
                   \/ ~up /\ priv.map_zoom = priv.min_zoom
                THEN /\ priv'.map_zoom = priv.map_zoom
                     /\ priv'.center_rlat = priv.center_rlat
                     /\ priv'.center_rlon = priv.center_rlon
                     /\ priv'.map_x = priv.map_x
                     /\ priv'.map_y = priv.map_y
                     /\ priv'.map_auto_center_enabled = priv.map_auto_center_enabled
                     /\ priv'.idle_map_redraw = priv.idle_map_redraw
                     /\ idle_sources' = idle_sources
                ELSE /\ priv'.map_zoom = priv.map_zoom + (IF up THEN 1 ELSE -1)
                     /\ ~priv'.map_auto_center_enabled]_vars

(***************************************************************************)
(* C39: a button press is offered to the layers in the order they were     *)
(* added; the dispatch stops at the first layer that consumes it, so the   *)
(* layers after it are not offered the press and the widget's state stays  *)
(* as it is; when no layer consumes it, every layer was offered it and the *)
(* widget arms a drag: button down, drag_counter 0, the press position and *)
(* the current map origin recorded.                                        *)
(***************************************************************************)
C39_PressDispatchOrder ==
    [][\A pos \in PressPositions \cup {<<3, 4>>}, consuming \in SUBSET LayersOf(Cur) :
         (op' = "button_press" /\ ButtonPressStep(pos, consuming)) =>
            LET taken == {i \in 1..Len(priv.layers) : priv.layers[i] \in consuming}
            IN  /\ Len(em'.offered) <= Len(priv.layers)
                /\ \A k \in 1..Len(em'.offered) : em'.offered[k] = priv.layers[k]
                /\ \A k \in 1..(Len(em'.offered) - 1) : em'.offered[k] \notin consuming
                /\ IF taken = {}
                   THEN /\ em'.offered = priv.layers
                        /\ priv' = [priv EXCEPT !.is_button_down = TRUE,
                                                !.drag_counter = 0,
                                                !.drag_start_mouse_x = pos[1],
                                                !.drag_start_mouse_y = pos[2],
                                                !.drag_start_map_x = priv.map_x,
                                                !.drag_start_map_y = priv.map_y]
                   ELSE /\ em'.offered[Len(em'.offered)] \in consuming
                        /\ priv' = priv]_vars

\* two layers, the one added last at the head of the list after a removal:
\* the head consumed the press and the other layer was not offered it
C39_Witness ==
    /\ op = "button_press"
    /\ priv.layers = <<2, 1>>
    /\ em.offered = <<2>>
    /\ ~priv.is_button_down
    /\ priv.map_x # DefaultMapX

(***************************************************************************)
(* C35: no redraw request is lost.  Once the surface exists, a requested   *)
(* redraw (idle_map_redraw non-zero) is followed by a full recomposition,  *)
(* given that every drag is released and every layer stops being busy.     *)
(* The redraw cycle counter has room for one more recomposition.           *)
(***************************************************************************)
C35_NoRedrawLost ==
    (/\ priv.pixmap = "live"
     /\ priv.idle_map_redraw # 0
     /\ priv.redraw_cycle < MaxRedrawCycle)
        ~> (em.recomposed > 0)

====
